---- MODULE Spec2Model ----
(***************************************************************************)
(* kql-language-tools: the process-wide native library singleton           *)
(* (src/src/loader.rs) and the buffer call-with-retry protocol             *)
(* (src/src/validator.rs, src/src/ffi.rs, src/src/error.rs).               *)
(*                                                                         *)
(*   Spec      threads calling load_library() / KqlValidator::new()        *)
(*   CallSpec  one query operation running the call protocol               *)
(***************************************************************************)
EXTENDS Integers, Sequences, FiniteSets, TLC

(***************************************************************************)
(* Bounds of the model.                                                    *)
(***************************************************************************)
NumThreads == 2
MaxLoads == 2

Threads == 1..NumThreads

(***************************************************************************)
(* ffi.rs: symbol names, return codes, buffer sizes.                       *)
(***************************************************************************)
KQL_INIT == "kql_init"
KQL_CLEANUP == "kql_cleanup"
KQL_VALIDATE_SYNTAX == "kql_validate_syntax"
KQL_GET_LAST_ERROR == "kql_get_last_error"
KQL_VALIDATE_WITH_SCHEMA == "kql_validate_with_schema"
KQL_GET_COMPLETIONS == "kql_get_completions"
KQL_GET_CLASSIFICATIONS == "kql_get_classifications"

\* load_from binds the required symbols in this order, then the optional ones
RequiredSymbols == <<KQL_INIT, KQL_CLEANUP, KQL_VALIDATE_SYNTAX, KQL_GET_LAST_ERROR>>
OptionalSymbols == {KQL_VALIDATE_WITH_SCHEMA, KQL_GET_COMPLETIONS, KQL_GET_CLASSIFICATIONS}
RequiredSet == {RequiredSymbols[i] : i \in 1..Len(RequiredSymbols)}

BUFFER_TOO_SMALL == -1
DEFAULT_BUFFER_SIZE == 64 * 1024
MAX_BUFFER_SIZE == 4 * 1024 * 1024

\* std::ffi::c_int is i32 on every supported target
C_INT_MAX == 2147483647

\* mutant: an empty result counts as a failure
is_success_Positive(code) == code > 0

is_success(code) == code >= 0

\* mutant: no code is taken for the buffer-too-small sentinel
is_buffer_too_small_Never(code) == FALSE

\* mutant: every negative code is taken for the buffer-too-small sentinel
is_buffer_too_small_AnyNegative(code) == code < 0

is_buffer_too_small(code) == code = BUFFER_TOO_SMALL

(***************************************************************************)
(* The environment the resolver reads: the override variable and the kind  *)
(* of filesystem entry at each candidate location.                         *)
(***************************************************************************)
P_OVR == "$KQL_LANGUAGE_TOOLS_PATH"
P_OVR_LIB == "$KQL_LANGUAGE_TOOLS_PATH/LIB_NAME"
P_EXE_LIB == "exe_dir/LIB_NAME"
P_NATIVE_LIB == "dotnet/native/rid/LIB_NAME"
P_CWD_LIB == "LIB_NAME"
NoPath == "none"

CandidatePaths == {P_OVR, P_OVR_LIB, P_EXE_LIB, P_NATIVE_LIB, P_CWD_LIB}

\* override: the variable is set (to P_OVR); unicode: its value is valid
\* Unicode; exe: current_exe() succeeds and has a parent directory; kind: what
\* each candidate location holds
MkEnv(ovr, k) == [override |-> ovr, unicode |-> TRUE, exe |-> TRUE, kind |-> k]

Absent == [p \in CandidatePaths |-> "absent"]

\* the environments the loader is run in
Envs ==
    { MkEnv(FALSE, Absent),
      MkEnv(TRUE, [Absent EXCEPT ![P_OVR] = "file"]) }

\* std::env::var(LIB_PATH_ENV) is Ok: the variable is set and valid Unicode
var_ok(e) == e.override /\ e.unicode

is_file(e, p) == e.kind[p] = "file"
is_dir(e, p) == e.kind[p] = "dir"
exists(e, p) == e.kind[p] # "absent"

\* mutant: the working-directory name is returned without looking for it
find_library_path_Fallback(e) ==
    IF var_ok(e) /\ is_file(e, P_OVR) THEN P_OVR ELSE P_CWD_LIB

find_library_path(e) ==
    IF var_ok(e) /\ is_file(e, P_OVR) THEN P_OVR
    ELSE IF var_ok(e) /\ is_dir(e, P_OVR) /\ exists(e, P_OVR_LIB) THEN P_OVR_LIB
    ELSE IF e.exe /\ exists(e, P_EXE_LIB) THEN P_EXE_LIB
    ELSE IF exists(e, P_NATIVE_LIB) THEN P_NATIVE_LIB
    ELSE IF exists(e, P_CWD_LIB) THEN P_CWD_LIB
    ELSE NoPath

\* mutant: the development-tree location is left out of the list
searched_paths_NoNative(e) ==
    (IF var_ok(e) THEN <<P_OVR, P_OVR_LIB>> ELSE <<>>)
        \o (IF e.exe THEN <<P_EXE_LIB>> ELSE <<>>)
        \o <<P_CWD_LIB>>

searched_paths(e) ==
    (IF var_ok(e) THEN <<P_OVR, P_OVR_LIB>> ELSE <<>>)
        \o (IF e.exe THEN <<P_EXE_LIB>> ELSE <<>>)
        \o <<P_NATIVE_LIB, P_CWD_LIB>>

\* the paths find_library_path() probes in environment e, in the order it
\* probes them, up to the one it returns
checked_paths(e) ==
    LET ovr == IF ~var_ok(e) THEN <<>>
               ELSE IF is_file(e, P_OVR) \/ ~is_dir(e, P_OVR) THEN <<P_OVR>>
               ELSE <<P_OVR, P_OVR_LIB>>
        exe == IF e.exe THEN <<P_EXE_LIB>> ELSE <<>>
    IN  IF find_library_path(e) \in {P_OVR, P_OVR_LIB} THEN ovr
        ELSE IF find_library_path(e) = P_EXE_LIB THEN ovr \o exe
        ELSE IF find_library_path(e) = P_NATIVE_LIB
          THEN ovr \o exe \o <<P_NATIVE_LIB>>
        ELSE ovr \o exe \o <<P_NATIVE_LIB, P_CWD_LIB>>

\* kql_language_tools::is_available()
is_available(e) == find_library_path(e) # NoPath

\* kql_language_tools::library_path()
library_path(e) == find_library_path(e)

\* every state of the override variable, of current_exe() and of the
\* candidate locations: a location nobody names holds nothing, and the
\* library inside the override path needs that path to be a directory
AllEnvs ==
    { e \in [override : BOOLEAN, unicode : BOOLEAN, exe : BOOLEAN,
             kind : [CandidatePaths -> {"absent", "file", "dir"}]] :
        /\ ~e.override => e.unicode /\ e.kind[P_OVR] = "absent"
        /\ e.kind[P_OVR] # "dir" => e.kind[P_OVR_LIB] = "absent"
        /\ ~e.exe => e.kind[P_EXE_LIB] = "absent" }

(***************************************************************************)
(* Platform identity: the build target decides the tag and the file name.  *)
(***************************************************************************)
\* the supported (target_os, target_arch) pairs
Targets ==
    [os : {"macos", "linux", "windows"}, arch : {"x86_64", "aarch64"}]

\* mutant: the macOS tags carry the target_os name
current_rid_OsName(tg) ==
    << IF tg.os = "windows" THEN "win" ELSE tg.os,
       IF tg.arch = "aarch64" THEN "arm64" ELSE "x64" >>

\* current_rid(): the tag "<family>-<arch>" as the pair of its two parts
current_rid(tg) ==
    CASE tg.os = "macos" /\ tg.arch = "aarch64" -> <<"osx", "arm64">>
      [] tg.os = "macos" /\ tg.arch = "x86_64" -> <<"osx", "x64">>
      [] tg.os = "linux" /\ tg.arch = "x86_64" -> <<"linux", "x64">>
      [] tg.os = "linux" /\ tg.arch = "aarch64" -> <<"linux", "arm64">>
      [] tg.os = "windows" /\ tg.arch = "x86_64" -> <<"win", "x64">>
      [] tg.os = "windows" /\ tg.arch = "aarch64" -> <<"win", "arm64">>

\* LIB_NAME: the file name "<stem>.<extension>" as the pair of its two parts
LIB_NAME(tg) ==
    CASE tg.os = "macos" -> <<"KqlLanguageFfiNE", "dylib">>
      [] tg.os = "linux" -> <<"KqlLanguageFfiNE", "so">>
      [] tg.os = "windows" -> <<"KqlLanguageFfiNE", "dll">>


(***************************************************************************)
(* The host the runtime prober looks at: the `dotnet --info` command and   *)
(* the filesystem.  A path is the sequence of its components; an absolute  *)
(* path starts with a root component, a relative one is resolved against   *)
(* the working directory.                                                  *)
(***************************************************************************)
ROOT == "/"
DRIVE_C == "C:\\"

\* Option::None of find_dotnet_root()
NoRoot == <<"None">>

\* the candidates array of find_dotnet_root, in its order
candidates ==
    << <<ROOT, "opt", "homebrew", "Cellar", "dotnet">>,
       <<ROOT, "usr", "local", "Cellar", "dotnet">>,
       <<ROOT, "usr", "share", "dotnet">>,
       <<ROOT, "usr", "local", "share", "dotnet">>,
       <<DRIVE_C, "Program Files", "dotnet">> >>

\* the entries a host's filesystem may hold; each brings its ancestors along
HostEntries ==
    { <<ROOT, "opt", "homebrew", "Cellar", "dotnet", "9.0.8", "libexec">>,
      <<ROOT, "opt", "homebrew", "Cellar", "dotnet", "10.0.1", "libexec">>,
      <<ROOT, "opt", "homebrew", "Cellar", "dotnet", "9.0.9">>,
      <<ROOT, "usr", "share", "dotnet", "shared">>,
      <<ROOT, "usr", "share", "dotnet", "dotnet">>,
      <<DRIVE_C, "Program Files", "dotnet", "shared">>,
      <<"shared">> }

\* the entries that are plain files: the dotnet executable
PlainFiles == { <<ROOT, "usr", "share", "dotnet", "dotnet">> }

\* the text after "Base Path:" in the output of `dotnet --info`: the path it
\* names, and the drive letter the text starts with on Windows ("" elsewhere)
BaseText(d, p) == [drive |-> d, path |-> p]

\* the output has no line starting with "Base Path:"
NoBase == BaseText("", <<>>)

BaseTexts ==
    { BaseText("", <<ROOT, "opt", "homebrew", "Cellar", "dotnet", "9.0.8",
                     "libexec", "sdk", "9.0.109">>),
      BaseText("", <<ROOT, "usr", "share", "dotnet", "sdk", "8.0.100">>),
      BaseText("C", <<DRIVE_C, "Program Files", "dotnet", "sdk", "8.0.100">>) }

\* cmd: Command::output() failed ("missing"), the exit status was a failure
\* ("failed"), or the command succeeded ("ok"); base: its Base Path line;
\* fs: the entries that exist
MkHost(c, b, f) == [cmd |-> c, base |-> b, fs |-> f]

\* the host runs Windows: its absolute paths start with a drive
on_windows(h) ==
    \/ h.base.drive # ""
    \/ \E p \in h.fs : p[1] = DRIVE_C

\* every host: the Base Path line is read only from a succeeded command, and
\* drive paths and rooted paths do not occur on the same host
AllHosts ==
    { h \in { MkHost(c, NoBase, f) : c \in {"missing", "failed", "ok"},
                                     f \in SUBSET HostEntries }
              \cup { MkHost("ok", b, f) : b \in BaseTexts,
                                          f \in SUBSET HostEntries } :
        on_windows(h) => /\ h.base.path = <<>> \/ h.base.drive # ""
                         /\ \A p \in h.fs : p[1] # ROOT }

\* a Linux host with the runtime under /usr/share/dotnet
LinuxHost ==
    MkHost("ok", BaseText("", <<ROOT, "usr", "share", "dotnet", "sdk", "8.0.100">>),
           { <<ROOT, "usr", "share", "dotnet", "shared">>,
             <<ROOT, "usr", "share", "dotnet", "dotnet">> })

\* the hosts the loader is run on
Hosts == {LinuxHost}

IsPrefix(p, q) == Len(p) <= Len(q) /\ SubSeq(q, 1, Len(p)) = p

\* Path::exists
path_exists(h, p) == \E q \in h.fs : IsPrefix(p, q)

\* Path::is_dir
path_is_dir(h, p) == path_exists(h, p) /\ p \notin PlainFiles

\* Path::join with one component
join(p, name) == Append(p, name)

\* Path::ends_with for one component
ends_with(p, name) == p # <<>> /\ p[Len(p)] = name

\* Path::ancestors: the path itself, then each parent, down to the root of an
\* absolute path and to the empty path of a relative one
ancestors(p) ==
    LET n == IF p # <<>> /\ p[1] \in {ROOT, DRIVE_C} THEN Len(p) ELSE Len(p) + 1
    IN  [i \in 1..n |-> SubSeq(p, 1, Len(p) + 1 - i)]

\* the entries of a sequence
Entries(seq) == {seq[i] : i \in 1..Len(seq)}

\* Iterator::find over a sequence: the first entry that is in good, NoRoot
\* when there is none
FindFirst(seq, good) ==
    IF \E i \in 1..Len(seq) : seq[i] \in good
      THEN seq[CHOOSE i \in 1..Len(seq) :
                  seq[i] \in good /\ \A j \in 1..(i - 1) : seq[j] \notin good]
      ELSE NoRoot

\* line.split(':').nth(1): the text between the first colon of the line and
\* the next one, which for a Windows path is the drive letter alone
split_nth_1(b) == IF b.drive = "" THEN b.path ELSE <<b.drive>>

\* the bytes of the directory names that are compared
Bytes(name) ==
    CASE name = "9.0.8" -> <<57, 46, 48, 46, 56>>
      [] name = "9.0.9" -> <<57, 46, 48, 46, 57>>
      [] name = "10.0.1" -> <<49, 48, 46, 48, 46, 49>>
      [] OTHER -> <<>>

RECURSIVE BytesLess(_, _)
\* Ord of two byte strings
BytesLess(a, b) ==
    IF b = <<>> THEN FALSE
    ELSE IF a = <<>> THEN TRUE
    ELSE IF Head(a) # Head(b) THEN Head(a) < Head(b)
    ELSE BytesLess(Tail(a), Tail(b))

\* read_dir(p) filtered by is_dir: the names of the subdirectories of p
subdirectories(h, p) ==
    { q[Len(p) + 1] : q \in {x \in h.fs : IsPrefix(p, x) /\ Len(x) > Len(p)
                                          /\ path_is_dir(h, SubSeq(x, 1, Len(p) + 1))} }

\* versions.sort_by_key(Reverse(path)) and first(): the greatest name
greatest(names) ==
    CHOOSE n \in names : \A m \in names : m = n \/ BytesLess(Bytes(m), Bytes(n))

\* the root a succeeded `dotnet --info` leads to (lines 348-366)
from_base_path(h) ==
    IF h.cmd # "ok" \/ h.base = NoBase THEN NoRoot
    ELSE LET path == split_nth_1(h.base)
             is_libexec(p) == ends_with(p, "libexec")
             holds_runtime(p) == \/ path_exists(h, join(p, "dotnet"))
                                 \/ path_exists(h, join(p, "shared"))
             up == ancestors(path)
             libexec == FindFirst(up, {p \in Entries(up) : is_libexec(p)})
         IN  IF libexec # NoRoot THEN libexec
             ELSE FindFirst(up, {p \in Entries(up) : holds_runtime(p)})

\* what the fallback loop returns for candidate c, NoRoot to go on (373-394)
from_candidate(h, c) ==
    IF ~path_exists(h, c) THEN NoRoot
    ELSE IF "Cellar" \in {c[i] : i \in 1..Len(c)}
      THEN LET versions == subdirectories(h, c) IN
           IF versions # {}
                /\ path_exists(h, join(join(c, greatest(versions)), "libexec"))
             THEN join(join(c, greatest(versions)), "libexec")
             ELSE NoRoot
    ELSE IF path_exists(h, join(c, "shared")) THEN c
    ELSE NoRoot

\* find_dotnet_root(): Some(path) or None
find_dotnet_root(h) ==
    LET found == {c \in Entries(candidates) : from_candidate(h, c) # NoRoot} IN
    IF from_base_path(h) # NoRoot THEN from_base_path(h)
    ELSE IF found # {} THEN from_candidate(h, FindFirst(candidates, found))
    ELSE NoRoot

\* the states of the DOTNET_ROOT variable: unset, set to valid Unicode, set to
\* a value that is not valid Unicode
Unset == [state |-> "unset", value |-> <<>>]
SetTo(p) == [state |-> "unicode", value |-> p]
Preset == SetTo(<<ROOT, "custom", "dotnet">>)
PresetNotUnicode == [state |-> "not_unicode", value |-> <<ROOT, "custom", "dotnet">>]

\* DOTNET_ROOT after ensure_dotnet_root(): std::env::var is Ok only for a set
\* value that is valid Unicode
after_ensure_dotnet_root(cur, h) ==
    IF cur.state = "unicode" THEN cur
    ELSE IF find_dotnet_root(h) # NoRoot THEN SetTo(find_dotnet_root(h))
    ELSE cur

(***************************************************************************)
(* Native library contents and native return values (the black-box peer).  *)
(***************************************************************************)
AllSymbols == RequiredSet \cup OptionalSymbols

\* what an opened file may export: everything required with none, one or all
\* of the optional entry points, or all but the first required symbol, or all
\* but the second and the last required ones
LibContents ==
    { RequiredSet, RequiredSet \cup {KQL_VALIDATE_WITH_SCHEMA}, AllSymbols,
      AllSymbols \ {KQL_INIT},
      AllSymbols \ {KQL_CLEANUP, KQL_GET_LAST_ERROR} }

InitRets == {0, -1, 1}
GleRets == {-1, 7, 1025}

(***************************************************************************)
(* State.                                                                  *)
(***************************************************************************)
VARIABLES
    LIBRARY,        \* static LIBRARY: OnceCell<LoadedLibrary>; NoHandle when empty
    owner,          \* thread running the get_or_try_init closure, 0 when none
    pc,             \* position of each thread inside load_library()
    calls,          \* load_library() calls started in the process
    res,            \* what each thread's last load_library() call returned
    att,            \* each thread's current load attempt (the closure's locals)
    ran,            \* the thread ran the closure in its current call
    blocked,        \* the thread blocked behind an in-flight attempt in this call
    late,           \* the thread's current call began after some attempt had failed
    failed,         \* some load attempt has failed in the process
    env,            \* override variable and filesystem, as the resolver sees them
    dotnet_root,    \* the DOTNET_ROOT variable
    initCalls,      \* kql_init invocations in the process
    initOks,        \* kql_init invocations that returned 0
    cleanupCalls,   \* kql_cleanup invocations in the process
    opens,          \* Library::new successes in the process
    exited          \* the process has terminated

loaderVars ==
    <<LIBRARY, owner, pc, calls, res, att, ran, blocked, late, failed, env,
      dotnet_root, initCalls, initOks, cleanupCalls, opens, exited>>

VARIABLES
    op,             \* the query operation in progress or last finished
    given,          \* byte lengths and cursor offset of what its caller passed
    proto,          \* the protocol function it runs: "with_retry" or "json"
    qpc,            \* position inside the operation
    args,           \* lengths and offset handed to the native function
    buffer_len,     \* buffer.len() of the operation's output buffer
    buffer,         \* the bytes of the output buffer, as runs of one kind
    decoded,        \* how many bytes of the buffer the operation decoded
    ncalls,         \* native data calls of this operation, in order
    gleCalls,       \* kql_get_last_error calls of this operation
    qres,           \* what the operation returned
    refused         \* some operation was refused for an absent entry point

VARIABLES
    target,         \* the (target_os, target_arch) pair the crate was built for
    probe,          \* the last call of a resolver function and what it returned
    host            \* the dotnet command and the filesystem the prober looks at

hostVars == <<target, probe, host>>

VARIABLES
    sessions,       \* per thread: the query operation it is inside and its locals
    last_error      \* the message kql_get_last_error would hand out now

sessionVars == <<sessions, last_error>>

VARIABLES
    validation,     \* the ValidationResult a caller holds, <<>> when none
    verdict,        \* what is_valid() answered for it, {} when not asked
    schema,         \* the Schema being built, <<>> when none
    json,           \* serde_json::to_string(&schema), <<>> when not taken
    parsed,         \* serde_json::from_str of that text, <<>> when not parsed
    applied         \* the last builder call on the schema and its argument

valueVars == <<validation, verdict, schema, json, parsed, applied>>

callVars ==
    <<op, given, proto, qpc, args, buffer_len, buffer, decoded, ncalls,
      gleCalls, qres, refused>>

\* the value standing for "kql_init was not called": no return code
NOT_CALLED == 999

NoHandle ==
    [id |-> 0, bound |-> {}, initRet |-> NOT_CALLED, cleanups |-> 0, closed |-> FALSE]

NoResult == [kind |-> "None", handle |-> NoHandle, err |-> "", detail |-> <<>>]

Ok(h) == [kind |-> "Ok", handle |-> h, err |-> "", detail |-> <<>>]

\* load_library() did not return: the closure panicked
Panicked == [kind |-> "Panic", handle |-> NoHandle, err |-> "", detail |-> <<>>]

\* an error and what it carries, as a sequence of strings
Err(e, d) == [kind |-> "Err", handle |-> NoHandle, err |-> e, detail |-> d]

NoAttempt ==
    [id |-> 0, path |-> NoPath, opened |-> FALSE, closed |-> FALSE, bound |-> {},
     initRet |-> NOT_CALLED, gleCalls |-> 0, gleRet |-> 0, cleanups |-> 0,
     gleCap |-> 0, exports |-> {}]

is_loaded == LIBRARY # NoHandle

\* the last resolver call: the function, what it returned, and (prior) what the
\* find_library_path() call just before it returned
NoProbe ==
    [fn |-> "none", path |-> NoPath, list |-> <<>>, flag |-> FALSE,
     rid |-> <<>>, lib |-> <<>>, prior |-> NoPath]

\* a build for Linux on x86_64 in which no resolver function was called yet
NoProbes ==
    /\ target = [os |-> "linux", arch |-> "x86_64"]
    /\ probe = NoProbe
    /\ host \in Hosts

LoaderInit ==
    /\ LIBRARY = NoHandle
    /\ owner = 0
    /\ pc = [t \in Threads |-> "idle"]
    /\ calls = 0
    /\ res = [t \in Threads |-> NoResult]
    /\ att = [t \in Threads |-> NoAttempt]
    /\ ran = [t \in Threads |-> FALSE]
    /\ blocked = [t \in Threads |-> FALSE]
    /\ late = [t \in Threads |-> FALSE]
    /\ failed = FALSE
    /\ env \in Envs
    /\ dotnet_root \in {Unset, Preset}
    /\ initCalls = 0
    /\ initOks = 0
    /\ cleanupCalls = 0
    /\ opens = 0
    /\ exited = FALSE

counters == <<initCalls, initOks, cleanupCalls, opens>>

(***************************************************************************)
(* load_library(): LIBRARY.get_or_try_init(closure).                       *)
(***************************************************************************)
\* a thread calls load_library() (KqlValidator::new())
Call(t) ==
    /\ ~exited
    /\ pc[t] = "idle"
    /\ calls < MaxLoads
    /\ calls' = calls + 1
    /\ pc' = [pc EXCEPT ![t] = "get"]
    /\ res' = [res EXCEPT ![t] = NoResult]
    /\ ran' = [ran EXCEPT ![t] = FALSE]
    /\ blocked' = [blocked EXCEPT ![t] = FALSE]
    /\ late' = [late EXCEPT ![t] = failed]
    /\ att' = [att EXCEPT ![t] = NoAttempt]
    /\ UNCHANGED <<LIBRARY, owner, failed, env, dotnet_root, counters, exited>>
    /\ UNCHANGED <<callVars, hostVars, sessionVars, valueVars>>

\* get_or_try_init: the cell is set, so the stored handle is returned
GetCached(t) ==
    /\ pc[t] = "get"
    /\ LIBRARY # NoHandle
    /\ pc' = [pc EXCEPT ![t] = "idle"]
    /\ res' = [res EXCEPT ![t] = Ok(LIBRARY)]
    /\ UNCHANGED <<late, failed, LIBRARY, owner, calls, att, ran, blocked, env, dotnet_root,
                   counters, exited>>
    /\ UNCHANGED <<callVars, hostVars, sessionVars, valueVars>>

\* mutant: the closure is entered without waiting for the running initializer
BecomeInitializer_NoLock(t) ==
    /\ pc[t] = "get"
    /\ LIBRARY = NoHandle
    /\ owner' = t
    /\ ran' = [ran EXCEPT ![t] = TRUE]
    /\ pc' = [pc EXCEPT ![t] = "probe"]
    /\ UNCHANGED <<late, failed, LIBRARY, calls, res, att, blocked, env,
                   dotnet_root, counters, exited>>
    /\ UNCHANGED <<callVars, hostVars, sessionVars, valueVars>>

\* mutant: the closure is run again although the cell is already set
BecomeInitializer_Reload(t) ==
    /\ pc[t] = "get"
    /\ owner = 0
    /\ owner' = t
    /\ ran' = [ran EXCEPT ![t] = TRUE]
    /\ pc' = [pc EXCEPT ![t] = "probe"]
    /\ UNCHANGED <<late, failed, LIBRARY, calls, res, att, blocked, env,
                   dotnet_root, counters, exited>>
    /\ UNCHANGED <<callVars, hostVars, sessionVars, valueVars>>

\* get_or_try_init: the cell is empty and nobody initializes: run the closure
BecomeInitializer(t) ==
    /\ pc[t] = "get"
    /\ LIBRARY = NoHandle
    /\ owner = 0
    /\ owner' = t
    /\ ran' = [ran EXCEPT ![t] = TRUE]
    /\ pc' = [pc EXCEPT ![t] = "probe"]
    /\ UNCHANGED <<late, failed, LIBRARY, calls, res, att, blocked, env, dotnet_root,
                   counters, exited>>
    /\ UNCHANGED <<callVars, hostVars, sessionVars, valueVars>>

\* get_or_try_init: the cell is empty and another thread initializes: block
Block(t) ==
    /\ pc[t] = "get"
    /\ LIBRARY = NoHandle
    /\ owner # 0
    /\ pc' = [pc EXCEPT ![t] = "wait"]
    /\ blocked' = [blocked EXCEPT ![t] = TRUE]
    /\ UNCHANGED <<late, failed, LIBRARY, owner, calls, res, att, ran, env, dotnet_root,
                   counters, exited>>
    /\ UNCHANGED <<callVars, hostVars, sessionVars, valueVars>>

\* mutant: a waiter gives up waiting and runs the closure itself
Wake_Barge(t) ==
    /\ pc[t] = "wait"
    /\ LIBRARY = NoHandle
    /\ owner' = t
    /\ ran' = [ran EXCEPT ![t] = TRUE]
    /\ pc' = [pc EXCEPT ![t] = "probe"]
    /\ UNCHANGED <<late, failed, LIBRARY, calls, res, att, blocked, env,
                   dotnet_root, counters, exited>>
    /\ UNCHANGED <<callVars, hostVars, sessionVars, valueVars>>

\* the in-flight initialization ended: the waiter looks at the cell again
Wake(t) ==
    /\ pc[t] = "wait"
    /\ owner = 0
    /\ pc' = [pc EXCEPT ![t] = "get"]
    /\ UNCHANGED <<late, failed, LIBRARY, owner, calls, res, att, ran, blocked, env,
                   dotnet_root, counters, exited>>
    /\ UNCHANGED <<callVars, hostVars, sessionVars, valueVars>>

\* mutant: a failed attempt is remembered in the cell
CellAfterErr_Poison(c) == [NoHandle EXCEPT !.id = -1]

\* what get_or_try_init leaves in the cell when the closure returned Err
CellAfterErr(c) == c

\* mutant: a failed closure leaves the cell marked as being initialized
Fail_Held(t, e) ==
    /\ owner' = owner
    /\ LIBRARY' = CellAfterErr(LIBRARY)
    /\ pc' = [pc EXCEPT ![t] = "idle"]
    /\ res' = [res EXCEPT ![t] = e]
    /\ failed' = TRUE

\* the closure returned Err(e): the initializer is released, the caller gets e
Fail(t, e) ==
    /\ owner' = 0
    /\ LIBRARY' = CellAfterErr(LIBRARY)
    /\ pc' = [pc EXCEPT ![t] = "idle"]
    /\ res' = [res EXCEPT ![t] = e]
    /\ failed' = TRUE

\* mutant: a runtime root that cannot be found fails the load attempt
ensure_dotnet_root_Strict(t) ==
    /\ pc[t] = "probe"
    /\ owner = t
    /\ dotnet_root' = after_ensure_dotnet_root(dotnet_root, host)
    /\ IF after_ensure_dotnet_root(dotnet_root, host).state = "unset"
         THEN Fail(t, Err("InitializationFailed", <<"DOTNET_ROOT">>))
         ELSE /\ pc' = [pc EXCEPT ![t] = "resolve"]
              /\ UNCHANGED <<LIBRARY, owner, res, failed>>
    /\ UNCHANGED <<late, calls, att, ran, blocked, env, counters, exited>>
    /\ UNCHANGED <<callVars, hostVars, sessionVars, valueVars>>

\* ensure_dotnet_root(), the first statement of the closure; it returns no
\* value, so the closure goes on to resolution
ensure_dotnet_root(t) ==
    /\ pc[t] = "probe"
    /\ owner = t
    /\ dotnet_root' = after_ensure_dotnet_root(dotnet_root, host)
    /\ pc' = [pc EXCEPT ![t] = "resolve"]
    /\ UNCHANGED <<late, failed, LIBRARY, owner, calls, res, att, ran, blocked, env,
                   counters, exited>>
    /\ UNCHANGED <<callVars, hostVars, sessionVars, valueVars>>

\* find_library_path().ok_or_else(LibraryNotFound { searched_paths() })?
Resolve(t) ==
    /\ pc[t] = "resolve"
    /\ owner = t
    /\ LET path == find_library_path(env) IN
         IF path = NoPath
           THEN /\ Fail(t, Err("LibraryNotFound", searched_paths(env)))
                /\ att' = att
           ELSE /\ att' = [att EXCEPT ![t].path = path]
                /\ pc' = [pc EXCEPT ![t] = "load_from"]
                /\ UNCHANGED <<LIBRARY, owner, res, failed>>
    /\ UNCHANGED <<late, calls, ran, blocked, env, dotnet_root, counters, exited>>
    /\ UNCHANGED <<callVars, hostVars, sessionVars, valueVars>>

\* mutant: a missing required symbol goes unnoticed
FirstMissing_Skip(s, i) == ""

\* mutant: the last missing required symbol is reported
FirstMissing_Last(s, i) ==
    LET miss == {j \in i..Len(RequiredSymbols) : RequiredSymbols[j] \notin s} IN
    IF miss = {} THEN ""
    ELSE RequiredSymbols[CHOOSE j \in miss : \A k \in miss : k <= j]

RECURSIVE FirstMissing(_, _)
\* the first required symbol, in binding order from index i, that s lacks
FirstMissing(s, i) ==
    IF i > Len(RequiredSymbols) THEN ""
    ELSE IF RequiredSymbols[i] \notin s THEN RequiredSymbols[i]
    ELSE FirstMissing(s, i + 1)

\* mutant: the Library is dropped at the end of load_from, only the function
\* pointers are kept
KeepLibrary_Dropped(a) == [a EXCEPT !.closed = TRUE]

\* Ok(Self { library, .. }): the Library is moved into the LoadedLibrary and
\* stays open for as long as that value lives
KeepLibrary(a) == a

\* LoadedLibrary::load_from(&path): open, bind required, bind optional
load_from(t) ==
    /\ pc[t] = "load_from"
    /\ owner = t
    /\ \/ \* Library::new(path) fails
          /\ Fail(t, Err("LibraryLoadFailed", <<att[t].path>>))
          /\ att' = [att EXCEPT ![t] = NoAttempt]
          /\ opens' = opens
       \/ \E s \in LibContents :
            /\ opens' = opens + 1
            /\ IF FirstMissing(s, 1) # ""
                 THEN \* the `?` drops the local Library: closed, nothing called
                      /\ Fail(t, Err("SymbolNotFound", <<FirstMissing(s, 1)>>))
                      /\ att' = [att EXCEPT ![t] =
                                    [NoAttempt EXCEPT !.exports = s]]
                 ELSE /\ att' = [att EXCEPT ![t] =
                                    KeepLibrary([@ EXCEPT !.id = opens + 1,
                                                          !.opened = TRUE,
                                                          !.bound = s,
                                                          !.exports = s])]
                      /\ pc' = [pc EXCEPT ![t] = "init"]
                      /\ UNCHANGED <<LIBRARY, owner, res, failed>>
    /\ UNCHANGED <<late, calls, ran, blocked, env, dotnet_root, initCalls, initOks,
                   cleanupCalls, exited>>
    /\ UNCHANGED <<callVars, hostVars, sessionVars, valueVars>>

\* mutant: the return code of kql_init is ignored
AfterInit_NoCheck(r) == "publish"

\* `if result != 0 { ... return Err(..) }`: where the closure goes after init
AfterInit(r) == IF r # 0 THEN "get_last_error" ELSE "publish"

\* let result = (lib.init)() returns r
init(t) ==
    /\ pc[t] = "init"
    /\ owner = t
    /\ \E r \in InitRets :
         /\ att' = [att EXCEPT ![t].initRet = r]
         /\ initCalls' = initCalls + 1
         /\ initOks' = IF r = 0 THEN initOks + 1 ELSE initOks
         /\ pc' = [pc EXCEPT ![t] = AfterInit(r)]
    /\ UNCHANGED <<late, failed, LIBRARY, owner, calls, res, ran, blocked, env, dotnet_root,
                   cleanupCalls, opens, exited>>
    /\ UNCHANGED <<callVars, hostVars, sessionVars, valueVars>>

\* (lib.get_last_error)(error_buf, 1024) after a non-zero init
init_get_last_error(t) ==
    /\ pc[t] = "get_last_error"
    /\ owner = t
    /\ \E len \in GleRets :
         att' = [att EXCEPT ![t].gleCalls = @ + 1, ![t].gleRet = len,
                            ![t].gleCap = 1024]
    /\ pc' = [pc EXCEPT ![t] = "drop_lib"]
    /\ UNCHANGED <<late, failed, LIBRARY, owner, calls, res, ran, blocked, env, dotnet_root,
                   counters, exited>>
    /\ UNCHANGED <<callVars, hostVars, sessionVars, valueVars>>

\* the message of InitializationFailed
InitMessage(a) ==
    IF a.gleRet > 0 THEN <<"native message">>
    ELSE <<"Initialization returned error code: ", ToString(a.initRet)>>

\* Drop for LoadedLibrary: (self.cleanup)(), then the Library field is closed
DropLoadedLibrary(a) == [a EXCEPT !.cleanups = @ + 1, !.closed = TRUE]

\* `return Err(..)` ends the scope of the local `lib`: its Drop runs
drop_lib(t) ==
    /\ pc[t] = "drop_lib"
    /\ owner = t
    /\ att' = [att EXCEPT ![t] = DropLoadedLibrary(att[t])]
    /\ cleanupCalls' = cleanupCalls + (att'[t].cleanups - att[t].cleanups)
    /\ pc' = [pc EXCEPT ![t] = "return_err"]
    /\ UNCHANGED <<late, failed, LIBRARY, owner, calls, res, ran, blocked, env, dotnet_root,
                   initCalls, initOks, opens, exited>>
    /\ UNCHANGED <<callVars, hostVars, sessionVars, valueVars>>

\* the closure returns Err(InitializationFailed { message }), or unwinds when
\* &error_buf[..len] was taken with len above the 1024 bytes of error_buf
return_init_failed(t) ==
    /\ pc[t] = "return_err"
    /\ owner = t
    /\ IF att[t].gleRet > 1024
         THEN Fail(t, Panicked)
         ELSE Fail(t, Err("InitializationFailed", InitMessage(att[t])))
    /\ att' = [att EXCEPT ![t] = NoAttempt]
    /\ UNCHANGED <<late, calls, ran, blocked, env, dotnet_root, counters, exited>>
    /\ UNCHANGED <<callVars, hostVars, sessionVars, valueVars>>

\* the LoadedLibrary value of a finished attempt, as moved into the cell
HandleOf(a) ==
    [id |-> a.id, bound |-> a.bound, initRet |-> a.initRet,
     cleanups |-> a.cleanups, closed |-> a.closed]

\* mutant: the handle is handed to the caller without being stored
publish_Lost(t) ==
    /\ pc[t] = "publish"
    /\ owner = t
    /\ owner' = 0
    /\ pc' = [pc EXCEPT ![t] = "idle"]
    /\ res' = [res EXCEPT ![t] = Ok(HandleOf(att[t]))]
    /\ att' = [att EXCEPT ![t] = NoAttempt]
    /\ UNCHANGED <<LIBRARY, late, failed, calls, ran, blocked, env, dotnet_root,
                   counters, exited>>
    /\ UNCHANGED <<callVars, hostVars, sessionVars, valueVars>>

\* Ok(lib): the cell is set and the reference to it returned
publish(t) ==
    /\ pc[t] = "publish"
    /\ owner = t
    /\ LIBRARY' = HandleOf(att[t])
    /\ owner' = 0
    /\ pc' = [pc EXCEPT ![t] = "idle"]
    /\ res' = [res EXCEPT ![t] = Ok(LIBRARY')]
    /\ att' = [att EXCEPT ![t] = NoAttempt]
    /\ UNCHANGED <<late, failed, calls, ran, blocked, env, dotnet_root, counters, exited>>
    /\ UNCHANGED <<callVars, hostVars, sessionVars, valueVars>>

\* the override variable or the filesystem changes
SetEnv ==
    /\ ~exited
    /\ \E e \in Envs \ {env} : env' = e
    /\ UNCHANGED <<late, failed, LIBRARY, owner, pc, calls, res, att, ran, blocked,
                   dotnet_root, counters, exited>>
    /\ UNCHANGED <<callVars, hostVars, sessionVars, valueVars>>

\* what the end of the process does to the value held by a static item:
\* Rust runs no destructor for it
StaticAtExit(h) == h

\* the process ends
ProcessExit ==
    /\ ~exited
    /\ \A t \in Threads : pc[t] = "idle"
    /\ exited' = TRUE
    /\ LIBRARY' = StaticAtExit(LIBRARY)
    /\ cleanupCalls' = cleanupCalls + (LIBRARY'.cleanups - LIBRARY.cleanups)
    /\ UNCHANGED <<late, failed, owner, pc, calls, res, att, ran, blocked, env,
                   dotnet_root, initCalls, initOks, opens>>
    /\ UNCHANGED <<callVars, hostVars, sessionVars, valueVars>>

load_library(t) ==
    \/ Call(t)
    \/ GetCached(t)
    \/ BecomeInitializer(t)
    \/ Block(t)
    \/ Wake(t)
    \/ ensure_dotnet_root(t)
    \/ Resolve(t)
    \/ load_from(t)
    \/ init(t)
    \/ init_get_last_error(t)
    \/ drop_lib(t)
    \/ return_init_failed(t)
    \/ publish(t)

LoaderNext ==
    \/ \E t \in Threads : load_library(t)
    \/ SetEnv
    \/ ProcessExit

(***************************************************************************)
(* Query operations: KqlValidator over the loaded handle.                  *)
(***************************************************************************)
\* a usize value hi * 2^31 + lo, with 0 <= lo < 2^31
USize(h, l) == [hi |-> h, lo |-> l]

\* c_int::try_from(n).is_ok()
fits_c_int(n) == n.hi = 0

\* mutant: the cast keeps 16 bits only
as_c_int_Short(n) == n.lo % 65536

\* `n as c_int`: the low 32 bits, read as a signed integer
as_c_int(n) == IF n.hi % 2 = 0 THEN n.lo ELSE n.lo - C_INT_MAX - 1

\* byte lengths of queries and schema JSON, and cursor offsets, callers pass
QueryLens == {USize(0, 27), USize(1, 0)}
SchemaLens == {USize(0, 40), USize(2, 5)}
Cursors == {USize(0, 3), USize(1, 0)}

\* what a native data call may return when handed capacity cap
DataRets(cap) == {-7, -3, -2, BUFFER_TOO_SMALL, 0, 12, cap + 1}

\* the kinds of bytes a buffer holds: one JSON document of the result's
\* shape, UTF-8 text that is no such document, bytes that are not UTF-8, and
\* the zero fill
Payloads == {"json", "not_utf8", "not_json"}

\* a run of n bytes of kind b
Run(n, b) == [n |-> n, b |-> b]

\* what is left of a run of kind b once bytes are cut off it
Cut(b) == IF b = "json" THEN "not_json" ELSE b

\* vec![0u8; len]
Zeroed(len) == <<Run(len, "zero")>>

RECURSIVE Size(_)
\* buf.len()
Size(buf) == IF buf = <<>> THEN 0 ELSE Head(buf).n + Size(Tail(buf))

RECURSIVE SliceFrom(_, _)
\* buf[n..]
SliceFrom(buf, n) ==
    IF n = 0 \/ buf = <<>> THEN buf
    ELSE IF Head(buf).n <= n THEN SliceFrom(Tail(buf), n - Head(buf).n)
    ELSE <<Run(Head(buf).n - n, Cut(Head(buf).b))>> \o Tail(buf)

\* mutant: the whole buffer is decoded
Slice_Whole(buf, n) == buf

RECURSIVE Slice(_, _)
\* buf[..n], for n <= buf.len()
Slice(buf, n) ==
    IF n = 0 \/ buf = <<>> THEN <<>>
    ELSE IF Head(buf).n <= n
      THEN <<Head(buf)>> \o Slice(Tail(buf), n - Head(buf).n)
    ELSE <<Run(n, Cut(Head(buf).b))>>

\* buffer.resize(len, 0)
Resize(buf, len) == buf \o Zeroed(len - Size(buf))

\* the bytes a native data call may have stored at the start of its output
\* buffer when it returns r: the r bytes of its result, a partial result
\* when the buffer was too small, nothing on an error
Writes(r, cap) ==
    IF r > cap THEN {Run(cap, "not_json")}
    ELSE IF r > 0 THEN {Run(r, b) : b \in Payloads}
    ELSE IF r = BUFFER_TOO_SMALL THEN {Run(0, "zero"), Run(30, "not_utf8")}
    ELSE {Run(0, "zero")}

\* the buffer once the native call has stored run w at its start
Write(buf, w) == IF w.n = 0 THEN buf ELSE <<w>> \o SliceFrom(buf, w.n)

\* std::str::from_utf8(bytes).is_ok()
from_utf8_ok(bytes) == \A i \in 1..Len(bytes) : bytes[i].b # "not_utf8"

\* serde_json::from_str::<T>(text).is_ok(): one whole document and nothing
\* after it
from_str_ok(bytes) == Len(bytes) = 1 /\ bytes[1].b = "json"

\* ValidationResult::valid()
ValidationResult_valid == "valid, no diagnostics"

\* T::default() of the result type of the operation
Default(name) ==
    IF name = "get_completions" THEN "no items" ELSE "no spans"

\* what kql_get_last_error may return for its 1024-byte buffer
LastErrorRets == {-1, 0, 9, 1025}

NoArgs == [query_len |-> 0, schema_len |-> 0, cursor_pos |-> 0]

\* query.len(), the length of the schema JSON (0 without a schema) and
\* cursor_position, as the usize values the operation received
Given(q, sl, c) == [query |-> q, schema |-> sl, cursor |-> c]

NoGiven == Given(USize(0, 0), USize(0, 0), USize(0, 0))

NoQRes ==
    [kind |-> "None", value |-> "none", err |-> "", code |-> 0, needed |-> 0,
     available |-> 0, reason |-> "", context |-> ""]

QOk(v) == [NoQRes EXCEPT !.kind = "Ok", !.value = v]

QErr(e) == [NoQRes EXCEPT !.kind = "Err", !.err = e]

\* slicing past the end of a Vec aborts the call with a panic
QPanic == [NoQRes EXCEPT !.kind = "Panic"]

Internal(m) == [QErr("Internal") EXCEPT !.reason = m]

\* no ValidationResult and no Schema exists yet
NoValues ==
    /\ validation = <<>>
    /\ verdict = {}
    /\ schema = <<>>
    /\ json = <<>>
    /\ parsed = <<>>
    /\ applied = [fn |-> "none", tables |-> <<>>]

\* number of threads calling query operations on the one validator
NumWorkers == 2

Workers == 1..NumWorkers

\* a thread that is inside no query operation and has called none
NoSession ==
    [op |-> "none", pc |-> "idle", buffer_len |-> 0, buffer |-> <<>>,
     result |-> 0, res |-> NoQRes, answers |-> {}]

\* no query operation was called and the native library recorded no error
NoSessions ==
    /\ sessions = [w \in Workers |-> NoSession]
    /\ last_error = ""
    /\ NoValues

\* mutant: the two fields are filled the other way round
BufferTooSmall_Swapped(n, a) ==
    [QErr("BufferTooSmall") EXCEPT !.needed = a, !.available = n]

\* Error::BufferTooSmall { needed: n, available: a }
BufferTooSmall(n, a) ==
    [QErr("BufferTooSmall") EXCEPT !.needed = n, !.available = a]

\* Error::from_native_code(code, context)
from_native_code(code, context) ==
    [QErr("NativeError") EXCEPT
        !.code = code,
        !.context = context,
        !.reason = CASE code = -1 -> "Buffer too small"
                     [] code = -2 -> "Parse error in input"
                     [] code = -3 -> "Internal error"
                     [] OTHER -> "Unknown error code"]

\* the handles load_library can have published: load_from binds every symbol
\* the opened file exports and fails only when a required one is missing
LoadedHandles ==
    { [id |-> 1, bound |-> b, initRet |-> 0, cleanups |-> 0, closed |-> FALSE] :
        b \in {c \in SUBSET AllSymbols : FirstMissing(c, 1) = ""} }

CallInit ==
    /\ LIBRARY \in LoadedHandles
    /\ owner = 0
    /\ pc = [t \in Threads |-> "idle"]
    /\ calls = 1
    /\ res = [t \in Threads |-> IF t = 1 THEN Ok(LIBRARY) ELSE NoResult]
    /\ att = [t \in Threads |-> NoAttempt]
    /\ ran = [t \in Threads |-> t = 1]
    /\ blocked = [t \in Threads |-> FALSE]
    /\ late = [t \in Threads |-> FALSE]
    /\ failed = FALSE
    /\ env \in Envs
    /\ dotnet_root \in {Unset, Preset}
    /\ initCalls = 1
    /\ initOks = 1
    /\ cleanupCalls = 0
    /\ opens = 1
    /\ exited = FALSE
    /\ op = "none"
    /\ given = NoGiven
    /\ proto = "none"
    /\ qpc = "idle"
    /\ args = NoArgs
    /\ buffer_len = 0
    /\ buffer = <<>>
    /\ decoded = 0
    /\ ncalls = <<>>
    /\ gleCalls = 0
    /\ qres = NoQRes
    /\ refused = FALSE
    /\ NoProbes
    /\ NoSessions

\* the messages of the errors returned for an entry point that is None
NotSupported ==
    {"Schema validation not supported", "Completion not supported",
     "Classification not supported"}

\* mutant: the optional entry point is used without the check
Supported_Always(h, sym) == TRUE

\* the Option field of entry point sym of handle h is Some
Supported(h, sym) == sym \in h.bound

\* KqlValidator::supports_schema_validation()
supports_schema_validation == Supported(LIBRARY, KQL_VALIDATE_WITH_SCHEMA)

\* mutant: the classification field is tested
supports_completion_Other == Supported(LIBRARY, KQL_GET_CLASSIFICATIONS)

\* KqlValidator::supports_completion()
supports_completion == Supported(LIBRARY, KQL_GET_COMPLETIONS)

\* KqlValidator::supports_classification()
supports_classification == Supported(LIBRARY, KQL_GET_CLASSIFICATIONS)

\* the operation returns r before any native call
ReturnEarly(name, r) ==
    /\ op' = name
    /\ proto' = "none"
    /\ qpc' = "idle"
    /\ args' = NoArgs
    /\ buffer_len' = 0
    /\ buffer' = <<>>
    /\ decoded' = 0
    /\ ncalls' = <<>>
    /\ gleCalls' = 0
    /\ qres' = r
    /\ refused' = (refused \/ r.reason \in NotSupported)

\* let mut buffer = vec![0u8; DEFAULT_BUFFER_SIZE], then the first ffi_call
EnterProtocol(name, p, a) ==
    /\ op' = name
    /\ proto' = p
    /\ qpc' = "call1"
    /\ args' = a
    /\ buffer_len' = DEFAULT_BUFFER_SIZE
    /\ buffer' = Zeroed(DEFAULT_BUFFER_SIZE)
    /\ decoded' = 0
    /\ ncalls' = <<>>
    /\ gleCalls' = 0
    /\ qres' = NoQRes
    /\ refused' = refused

\* KqlValidator::validate_syntax(query), up to the protocol
validate_syntax ==
    /\ qpc = "idle"
    /\ \E q \in QueryLens :
         /\ given' = Given(q, USize(0, 0), USize(0, 0))
         /\ IF ~fits_c_int(q)
             THEN ReturnEarly("validate_syntax", Internal("Query too large"))
             ELSE EnterProtocol("validate_syntax", "with_retry",
                                [NoArgs EXCEPT !.query_len = q.lo])
    /\ UNCHANGED <<loaderVars, hostVars, sessionVars, valueVars>>

\* KqlValidator::validate_with_schema(query, schema), up to the protocol
validate_with_schema ==
    /\ qpc = "idle"
    /\ \E q \in QueryLens, sl \in SchemaLens :
         /\ given' = Given(q, sl, USize(0, 0))
         /\ IF ~Supported(LIBRARY, KQL_VALIDATE_WITH_SCHEMA)
             THEN ReturnEarly("validate_with_schema",
                              Internal("Schema validation not supported"))
           ELSE IF ~fits_c_int(q)
             THEN ReturnEarly("validate_with_schema", Internal("Query too large"))
           ELSE IF ~fits_c_int(sl)
             THEN ReturnEarly("validate_with_schema", Internal("Schema too large"))
           ELSE EnterProtocol("validate_with_schema", "with_retry",
                              [NoArgs EXCEPT !.query_len = q.lo,
                                             !.schema_len = sl.lo])
    /\ UNCHANGED <<loaderVars, hostVars, sessionVars, valueVars>>

\* KqlValidator::get_classifications(query), up to the protocol
get_classifications ==
    /\ qpc = "idle"
    /\ \E q \in QueryLens :
         /\ given' = Given(q, USize(0, 0), USize(0, 0))
         /\ IF ~Supported(LIBRARY, KQL_GET_CLASSIFICATIONS)
             THEN ReturnEarly("get_classifications",
                              Internal("Classification not supported"))
           ELSE IF ~fits_c_int(q)
             THEN ReturnEarly("get_classifications", Internal("Query too large"))
           ELSE EnterProtocol("get_classifications", "json",
                              [NoArgs EXCEPT !.query_len = q.lo])
    /\ UNCHANGED <<loaderVars, hostVars, sessionVars, valueVars>>

\* KqlValidator::get_completions(query, cursor_position, schema), up to the
\* protocol; the schema length is cast, not checked
get_completions ==
    /\ qpc = "idle"
    /\ \E q \in QueryLens, c \in Cursors, sl \in SchemaLens \cup {USize(0, 0)} :
         /\ given' = Given(q, sl, c)
         /\ IF ~Supported(LIBRARY, KQL_GET_COMPLETIONS)
             THEN ReturnEarly("get_completions",
                              Internal("Completion not supported"))
           ELSE IF ~fits_c_int(q)
             THEN ReturnEarly("get_completions", Internal("Query too large"))
           ELSE IF ~fits_c_int(c)
             THEN ReturnEarly("get_completions",
                              Internal("Cursor position too large"))
           ELSE EnterProtocol("get_completions", "json",
                              [query_len |-> q.lo, schema_len |-> as_c_int(sl),
                               cursor_pos |-> c.lo])
    /\ UNCHANGED <<loaderVars, hostVars, sessionVars, valueVars>>

\* the operation returns r to its caller
Return(r) ==
    /\ qpc' = "idle"
    /\ qres' = r

\* the native data call made with the current buffer stores w and returns r
NativeCall(r, w) ==
    ncalls' = Append(ncalls,
                     [buffer_len |-> buffer_len,
                      cap |-> as_c_int(USize(0, buffer_len)),
                      ret |-> r,
                      wrote |-> w])

\* mutant: the buffer grows fourfold
new_size_Quadruple(len) == len * 4

\* let new_size = buffer.len() * 2
new_size(len) == len * 2

\* the tail of call_ffi_with_retry once `result` is not the sentinel: error
\* check, empty result, or decoding of buffer[..result]
Finish(r, buf, empty) ==
    IF ~is_success(r)
      THEN qpc' = "get_last_error" /\ qres' = qres /\ decoded' = decoded
    ELSE IF r = 0
      THEN Return(QOk(empty)) /\ decoded' = decoded
    ELSE IF r > Size(buf)
      THEN Return(QPanic) /\ decoded' = decoded
    ELSE LET bytes == Slice(buf, r) IN
         /\ decoded' = Size(bytes)
         /\ IF ~from_utf8_ok(bytes) THEN Return(QErr("Utf8"))
            ELSE IF ~from_str_ok(bytes) THEN Return(QErr("Json"))
            ELSE Return(QOk("parsed"))

\* call_ffi_with_retry: its first ffi_call returns r, having stored w
FirstCall(r, w, empty) ==
    /\ NativeCall(r, w)
    /\ IF is_buffer_too_small(r)
         THEN IF new_size(buffer_len) > MAX_BUFFER_SIZE
                THEN /\ Return(BufferTooSmall(new_size(buffer_len),
                                              MAX_BUFFER_SIZE))
                     /\ buffer_len' = buffer_len
                     /\ buffer' = Write(buffer, w)
                     /\ decoded' = decoded
                ELSE /\ buffer_len' = new_size(buffer_len)
                     /\ buffer' = Resize(Write(buffer, w),
                                         new_size(buffer_len))
                     /\ qpc' = "call2"
                     /\ qres' = qres
                     /\ decoded' = decoded
         ELSE /\ buffer_len' = buffer_len
              /\ buffer' = Write(buffer, w)
              /\ Finish(r, buffer', empty)

\* call_ffi_with_retry: its second ffi_call returns r, having stored w
SecondCall(r, w, empty) ==
    /\ NativeCall(r, w)
    /\ buffer_len' = buffer_len
    /\ buffer' = Write(buffer, w)
    /\ IF is_buffer_too_small(r)
         THEN Return(BufferTooSmall(0, buffer_len)) /\ decoded' = decoded
         ELSE Finish(r, buffer', empty)

\* call_ffi_with_retry: the first ffi_call returns
call_ffi_with_retry_first ==
    /\ qpc = "call1"
    /\ proto = "with_retry"
    /\ \E r \in DataRets(buffer_len) : \E w \in Writes(r, buffer_len) :
         FirstCall(r, w, ValidationResult_valid)
    /\ UNCHANGED <<op, given, proto, args, gleCalls, refused>>
    /\ UNCHANGED <<loaderVars, hostVars, sessionVars, valueVars>>

\* call_ffi_with_retry: the second ffi_call returns
call_ffi_with_retry_second ==
    /\ qpc = "call2"
    /\ proto = "with_retry"
    /\ \E r \in DataRets(buffer_len) : \E w \in Writes(r, buffer_len) :
         SecondCall(r, w, ValidationResult_valid)
    /\ UNCHANGED <<op, given, proto, args, gleCalls, refused>>
    /\ UNCHANGED <<loaderVars, hostVars, sessionVars, valueVars>>

\* mutant: call_ffi_json reports a native error without fetching its message
JsonFinish_NoFetch(r, buf, empty) ==
    IF ~is_success(r)
      THEN Return(from_native_code(r, "")) /\ decoded' = decoded
    ELSE IF r = 0
      THEN Return(QOk(empty)) /\ decoded' = decoded
    ELSE IF r > Size(buf)
      THEN Return(QPanic) /\ decoded' = decoded
    ELSE LET bytes == Slice(buf, r) IN
         /\ decoded' = Size(bytes)
         /\ IF ~from_utf8_ok(bytes) THEN Return(QErr("Utf8"))
            ELSE IF ~from_str_ok(bytes) THEN Return(QErr("Json"))
            ELSE Return(QOk("parsed"))

\* call_ffi_json from "Check for errors" on (validator.rs:373-390)
JsonFinish(r, buf, empty) ==
    IF ~is_success(r)
      THEN qpc' = "get_last_error" /\ qres' = qres /\ decoded' = decoded
    ELSE IF r = 0
      THEN Return(QOk(empty)) /\ decoded' = decoded
    ELSE IF r > Size(buf)
      THEN Return(QPanic) /\ decoded' = decoded
    ELSE LET bytes == Slice(buf, r) IN
         /\ decoded' = Size(bytes)
         /\ IF ~from_utf8_ok(bytes) THEN Return(QErr("Utf8"))
            ELSE IF ~from_str_ok(bytes) THEN Return(QErr("Json"))
            ELSE Return(QOk("parsed"))

\* call_ffi_json: its first ffi_call returns r, having stored w
\* (validator.rs:350-363)
JsonFirstCall(r, w, empty) ==
    /\ NativeCall(r, w)
    /\ IF is_buffer_too_small(r)
         THEN IF new_size(buffer_len) > MAX_BUFFER_SIZE
                THEN /\ Return(BufferTooSmall(new_size(buffer_len),
                                              MAX_BUFFER_SIZE))
                     /\ buffer_len' = buffer_len
                     /\ buffer' = Write(buffer, w)
                     /\ decoded' = decoded
                ELSE /\ buffer_len' = new_size(buffer_len)
                     /\ buffer' = Resize(Write(buffer, w),
                                         new_size(buffer_len))
                     /\ qpc' = "call2"
                     /\ qres' = qres
                     /\ decoded' = decoded
         ELSE /\ buffer_len' = buffer_len
              /\ buffer' = Write(buffer, w)
              /\ JsonFinish(r, buffer', empty)

\* call_ffi_json: its second ffi_call returns r, having stored w
\* (validator.rs:363-371)
JsonSecondCall(r, w, empty) ==
    /\ NativeCall(r, w)
    /\ buffer_len' = buffer_len
    /\ buffer' = Write(buffer, w)
    /\ IF is_buffer_too_small(r)
         THEN Return(BufferTooSmall(0, buffer_len)) /\ decoded' = decoded
         ELSE JsonFinish(r, buffer', empty)

\* call_ffi_json: the first ffi_call returns
call_ffi_json_first ==
    /\ qpc = "call1"
    /\ proto = "json"
    /\ \E r \in DataRets(buffer_len) : \E w \in Writes(r, buffer_len) :
         JsonFirstCall(r, w, Default(op))
    /\ UNCHANGED <<op, given, proto, args, gleCalls, refused>>
    /\ UNCHANGED <<loaderVars, hostVars, sessionVars, valueVars>>

\* call_ffi_json: the second ffi_call returns
call_ffi_json_second ==
    /\ qpc = "call2"
    /\ proto = "json"
    /\ \E r \in DataRets(buffer_len) : \E w \in Writes(r, buffer_len) :
         JsonSecondCall(r, w, Default(op))
    /\ UNCHANGED <<op, given, proto, args, gleCalls, refused>>
    /\ UNCHANGED <<loaderVars, hostVars, sessionVars, valueVars>>

\* the code whose error is being reported: the last data call's return
LastCode == ncalls[Len(ncalls)].ret

\* KqlValidator::get_last_error() returns, then Err(from_native_code(..))
get_last_error ==
    /\ qpc = "get_last_error"
    /\ \E len \in LastErrorRets :
         /\ gleCalls' = gleCalls + 1
         /\ IF is_success(len) /\ len > 0
              THEN IF len > 1024
                     THEN Return(QPanic)
                     ELSE \E msg \in {"native message", ""} :
                            \* String::from_utf8(..).ok(), unwrap_or_default()
                            Return(from_native_code(LastCode, msg))
              ELSE Return(from_native_code(LastCode, ""))
    /\ UNCHANGED <<op, given, proto, args, buffer_len, buffer, decoded,
                   ncalls, refused>>
    /\ UNCHANGED <<loaderVars, hostVars, sessionVars, valueVars>>

CallNext ==
    \/ validate_syntax
    \/ validate_with_schema
    \/ get_classifications
    \/ get_completions
    \/ call_ffi_with_retry_first
    \/ call_ffi_with_retry_second
    \/ call_ffi_json_first
    \/ call_ffi_json_second
    \/ get_last_error

\* no validator exists yet
NoCalls ==
    /\ op = "none"
    /\ given = NoGiven
    /\ proto = "none"
    /\ qpc = "idle"
    /\ args = NoArgs
    /\ buffer_len = 0
    /\ buffer = <<>>
    /\ decoded = 0
    /\ ncalls = <<>>
    /\ gleCalls = 0
    /\ qres = NoQRes
    /\ refused = FALSE

(***************************************************************************)
(* The resolver functions called on their own, in any environment.         *)
(***************************************************************************)
\* nothing was loaded yet
ResolverInit ==
    /\ LIBRARY = NoHandle
    /\ owner = 0
    /\ pc = [t \in Threads |-> "idle"]
    /\ calls = IF is_loaded THEN 1 ELSE 0
    /\ res = [t \in Threads |->
                IF t = 1 /\ is_loaded THEN Ok(LIBRARY) ELSE NoResult]
    /\ att = [t \in Threads |-> NoAttempt]
    /\ ran = [t \in Threads |-> t = 1 /\ is_loaded]
    /\ blocked = [t \in Threads |-> FALSE]
    /\ late = [t \in Threads |-> FALSE]
    /\ failed = FALSE
    /\ env \in AllEnvs
    /\ dotnet_root = Unset
    /\ initCalls = calls
    /\ initOks = calls
    /\ cleanupCalls = 0
    /\ opens = calls
    /\ exited = FALSE
    /\ NoCalls
    /\ target \in Targets
    /\ probe = NoProbe
    /\ host \in Hosts
    /\ NoSessions

\* a resolver function returns p and touches nothing else
Probed(p) ==
    /\ probe' = p
    /\ UNCHANGED <<loaderVars, callVars, target, host, sessionVars, valueVars>>

\* mutant: the path a library_path() call just found is handed out again
FindLibraryPath_Cached ==
    Probed([NoProbe EXCEPT !.fn = "find_library_path",
                           !.path = IF probe.fn = "library_path"
                                      THEN probe.path
                                      ELSE find_library_path(env)])

\* loader::find_library_path() is called
FindLibraryPath ==
    Probed([NoProbe EXCEPT !.fn = "find_library_path",
                           !.path = find_library_path(env),
                           !.prior = IF probe.fn = "find_library_path"
                                       THEN probe.path ELSE NoPath])

\* loader::searched_paths() is called
SearchedPaths ==
    Probed([NoProbe EXCEPT !.fn = "searched_paths",
                           !.list = searched_paths(env)])

\* kql_language_tools::is_available() is called
IsAvailable ==
    Probed([NoProbe EXCEPT !.fn = "is_available",
                           !.flag = is_available(env)])

\* kql_language_tools::library_path() is called
LibraryPath ==
    Probed([NoProbe EXCEPT !.fn = "library_path",
                           !.path = library_path(env)])

\* loader::current_rid() is called and LIB_NAME read
CurrentRid ==
    Probed([NoProbe EXCEPT !.fn = "current_rid",
                           !.rid = current_rid(target),
                           !.lib = LIB_NAME(target)])

\* environment e with what no longer can hold anything emptied: the override
\* locations without the variable, the library inside an override path that
\* is no directory, the location next to an unknown executable
Settled(e) ==
    [e EXCEPT
       !.unicode = e.override => @,
       !.kind = [p \in CandidatePaths |->
                   IF p = P_OVR /\ ~e.override THEN "absent"
                   ELSE IF p = P_OVR_LIB
                           /\ (~e.override \/ e.kind[P_OVR] # "dir")
                     THEN "absent"
                   ELSE IF p = P_EXE_LIB /\ ~e.exe THEN "absent"
                   ELSE e.kind[p]]]

\* the override variable is set or removed, current_exe() starts or stops
\* working, or one candidate location changes
ChangeEnv ==
    /\ \/ \E k \in {"absent", "file", "dir"}, u \in BOOLEAN :
            env' = Settled([env EXCEPT !.override = ~@, !.unicode = u,
                                       !.kind[P_OVR] = k])
       \/ env' = Settled([env EXCEPT !.exe = ~@])
       \/ \E p \in CandidatePaths, k \in {"absent", "file", "dir"} :
            env' = Settled([env EXCEPT !.kind[p] = k])
    /\ env' # env
    /\ UNCHANGED <<LIBRARY, owner, pc, calls, res, att, ran, blocked, late,
                   failed, dotnet_root, counters, exited>>
    /\ UNCHANGED <<callVars, hostVars, sessionVars, valueVars>>

ResolverNext ==
    \/ FindLibraryPath
    \/ SearchedPaths
    \/ IsAvailable
    \/ LibraryPath
    \/ CurrentRid
    \/ ChangeEnv

(***************************************************************************)
(* The runtime prober on every host: load attempts that find no library,   *)
(* so that each of them runs ensure_dotnet_root() again.                   *)
(***************************************************************************)
ProberInit ==
    /\ LIBRARY = NoHandle
    /\ owner = 0
    /\ pc = [t \in Threads |-> "idle"]
    /\ calls = 0
    /\ res = [t \in Threads |-> NoResult]
    /\ att = [t \in Threads |-> NoAttempt]
    /\ ran = [t \in Threads |-> FALSE]
    /\ blocked = [t \in Threads |-> FALSE]
    /\ late = [t \in Threads |-> FALSE]
    /\ failed = FALSE
    /\ env = MkEnv(FALSE, Absent)
    /\ dotnet_root \in {Unset, Preset, PresetNotUnicode}
    /\ initCalls = 0
    /\ initOks = 0
    /\ cleanupCalls = 0
    /\ opens = 0
    /\ exited = FALSE
    /\ NoCalls
    /\ host \in AllHosts
    /\ target = [os |-> IF on_windows(host) THEN "windows" ELSE "linux",
                 arch |-> "x86_64"]
    /\ probe = NoProbe
    /\ NoSessions

ProberNext ==
    \E t \in Threads :
       \/ Call(t)
       \/ BecomeInitializer(t)
       \/ Block(t)
       \/ Wake(t)
       \/ ensure_dotnet_root(t)
       \/ Resolve(t)

(***************************************************************************)
(* Query operations called by several threads at once on the one loaded    *)
(* handle.  Every call has its own `buffer` local; the native library is   *)
(* taken to keep one last-error message for the whole process.             *)
(***************************************************************************)
\* what the native data calls of this part return
WorkerRets == {-2, BUFFER_TOO_SMALL, 0, 12}

\* the message the native library records when the data call of thread w
\* fails with code r
recorded(w, r) ==
    "data call of thread " \o ToString(w) \o " failed with " \o ToString(r)

\* let mut buffer = vec![0u8; DEFAULT_BUFFER_SIZE], a local of the call
begin(name) ==
    [NoSession EXCEPT !.op = name,
                      !.pc = "call1",
                      !.buffer_len = DEFAULT_BUFFER_SIZE,
                      !.buffer = Zeroed(DEFAULT_BUFFER_SIZE)]

\* the operation of session s returns r to its caller: `buffer` and `result`
\* are dropped with the call
returned(s, r) == [NoSession EXCEPT !.res = r]

\* T::default() or ValidationResult::valid() of the operation
empty_result(name) ==
    IF name = "validate_syntax" THEN ValidationResult_valid ELSE Default(name)

\* the protocol functions from "Check for errors" on, for native result r
checked(s, r) ==
    IF ~is_success(r) THEN [s EXCEPT !.pc = "get_last_error"]
    ELSE IF r = 0 THEN returned(s, QOk(empty_result(s.op)))
    ELSE IF r > Size(s.buffer) THEN returned(s, QPanic)
    ELSE LET bytes == Slice(s.buffer, r) IN
         IF ~from_utf8_ok(bytes) THEN returned(s, QErr("Utf8"))
         ELSE IF ~from_str_ok(bytes) THEN returned(s, QErr("Json"))
         ELSE returned(s, QOk("parsed"))

\* the session once its pending ffi_call has stored run b in its buffer and
\* returned r: the first call may grow the buffer for the one retry
called(s, r, b) ==
    LET t == [s EXCEPT !.result = r, !.buffer = Write(@, b)] IN
    IF ~is_buffer_too_small(r) THEN checked(t, r)
    ELSE IF s.pc = "call2"
      THEN returned(t, BufferTooSmall(0, s.buffer_len))
    ELSE IF new_size(s.buffer_len) > MAX_BUFFER_SIZE
      THEN returned(t, BufferTooSmall(new_size(s.buffer_len), MAX_BUFFER_SIZE))
    ELSE [t EXCEPT !.buffer_len = new_size(s.buffer_len),
                   !.buffer = Resize(t.buffer, new_size(s.buffer_len)),
                   !.pc = "call2"]

\* mutant: the calls in flight share one output buffer
ffi_call_SharedBuffer(ss, w, r, b) ==
    [u \in Workers |->
        IF u = w THEN called(ss[w], r, b)
        ELSE IF ss[u].pc \in {"call1", "call2"}
          THEN [ss[u] EXCEPT !.buffer = called(ss[w], r, b).buffer,
                             !.buffer_len = called(ss[w], r, b).buffer_len]
        ELSE ss[u]]

\* ffi_call(&mut buffer) of thread w: the native function is handed the
\* pointer and length of w's own buffer
ffi_call(ss, w, r, b) == [ss EXCEPT ![w] = called(ss[w], r, b)]

\* thread w calls validate_syntax with a query that fits a c_int
Worker_validate_syntax(w) ==
    /\ sessions[w].pc = "idle"
    /\ sessions' = [sessions EXCEPT ![w] = begin("validate_syntax")]
    /\ UNCHANGED last_error
    /\ UNCHANGED <<loaderVars, callVars, hostVars, valueVars>>

\* thread w calls get_completions with a query and cursor that fit a c_int
Worker_get_completions(w) ==
    /\ sessions[w].pc = "idle"
    /\ sessions' =
         [sessions EXCEPT ![w] =
            IF ~Supported(LIBRARY, KQL_GET_COMPLETIONS)
              THEN returned(@, Internal("Completion not supported"))
              ELSE begin("get_completions")]
    /\ UNCHANGED last_error
    /\ UNCHANGED <<loaderVars, callVars, hostVars, valueVars>>

\* thread w asks supports_completion(); the answer is kept until its next
\* operation
Worker_supports_completion(w) ==
    /\ sessions[w].pc = "idle"
    /\ sessions[w].answers = {}
    /\ sessions' = [sessions EXCEPT ![w].answers = {supports_completion}]
    /\ UNCHANGED last_error
    /\ UNCHANGED <<loaderVars, callVars, hostVars, valueVars>>

\* the pending native data call of thread w returns; a failing call leaves
\* its message in the native library
Worker_ffi_call(w) ==
    /\ sessions[w].pc \in {"call1", "call2"}
    /\ \E r \in WorkerRets :
       \E b \in Writes(r, as_c_int(USize(0, sessions[w].buffer_len))) :
         /\ sessions' = ffi_call(sessions, w, r, b)
         /\ last_error' = IF r < 0 THEN recorded(w, r) ELSE last_error
    /\ UNCHANGED <<loaderVars, callVars, hostVars, valueVars>>

\* self.get_last_error().unwrap_or_default() of thread w, then
\* Err(Error::from_native_code(result, &error_msg))
Worker_get_last_error(w) ==
    /\ sessions[w].pc = "get_last_error"
    /\ \E len \in LastErrorRets :
         LET s == sessions[w]
             result == s.result
         IN sessions' =
              [sessions EXCEPT ![w] =
                 IF is_success(len) /\ len > 0
                   THEN IF len > 1024 THEN returned(s, QPanic)
                        \* the process-wide message as it stands when
                        \* this second native call runs
                        ELSE returned(s, from_native_code(result, last_error))
                   ELSE returned(s, from_native_code(result, ""))]
    /\ UNCHANGED last_error
    /\ UNCHANGED <<loaderVars, callVars, hostVars, valueVars>>

\* a validator over a loaded handle, shared by the threads; the handle has
\* the completion entry point or none of the optional ones
SharedInit ==
    /\ LIBRARY \in {h \in LoadedHandles :
                       h.bound \ {KQL_GET_COMPLETIONS} = RequiredSet}
    /\ owner = 0
    /\ pc = [t \in Threads |-> "idle"]
    /\ calls = 1
    /\ res = [t \in Threads |-> IF t = 1 THEN Ok(LIBRARY) ELSE NoResult]
    /\ att = [t \in Threads |-> NoAttempt]
    /\ ran = [t \in Threads |-> t = 1]
    /\ blocked = [t \in Threads |-> FALSE]
    /\ late = [t \in Threads |-> FALSE]
    /\ failed = FALSE
    /\ env = MkEnv(FALSE, Absent)
    /\ dotnet_root = Unset
    /\ initCalls = 1
    /\ initOks = 1
    /\ cleanupCalls = 0
    /\ opens = 1
    /\ exited = FALSE
    /\ NoCalls
    /\ NoProbes
    /\ NoSessions

SharedNext ==
    \E w \in Workers :
       \/ Worker_validate_syntax(w)
       \/ Worker_get_completions(w)
       \/ Worker_supports_completion(w)
       \/ Worker_ffi_call(w)
       \/ Worker_get_last_error(w)

(***************************************************************************)
(* The value types: ValidationResult (types.rs) and Schema (schema.rs).    *)
(***************************************************************************)
\* most diagnostics in one result
MaxDiagnostics == 3

\* enum DiagnosticSeverity
Severities == {"Error", "Warning", "Information", "Hint"}

\* the severity strings a native payload may carry
SeverityTexts == Severities \cup {"error"}

\* sequences over set S of length at most n
RECURSIVE SeqsUpTo(_, _)
SeqsUpTo(S, n) ==
    IF n = 0 THEN {<<>>}
    ELSE SeqsUpTo(S, n - 1) \cup
         {Append(q, x) : q \in {p \in SeqsUpTo(S, n - 1) : Len(p) = n - 1},
                         x \in S}

\* a Diagnostic, as far as the predicates of ValidationResult read it
Diagnostic(sev) == [message |-> "diagnostic", severity |-> sev]

\* ValidationResult::valid()
valid_result == [valid |-> TRUE, diagnostics |-> <<>>]

\* ValidationResult::invalid(diagnostics)
invalid(diagnostics) == [valid |-> FALSE, diagnostics |-> diagnostics]

\* serde_json::from_str::<ValidationResult>: <<>> for Err, <<result>> for Ok;
\* a severity that is none of the PascalCase variant names is an error
from_str_ValidationResult(flag, texts) ==
    IF \E i \in 1..Len(texts) : texts[i] \notin Severities THEN <<>>
    ELSE <<[valid |-> flag,
            diagnostics |-> [i \in 1..Len(texts) |-> Diagnostic(texts[i])]]>>

\* ValidationResult::has_errors()
has_errors(v) ==
    \E i \in 1..Len(v.diagnostics) : v.diagnostics[i].severity = "Error"

\* mutant: the flag of the payload alone decides
is_valid_FlagOnly(v) == v.valid

\* ValidationResult::is_valid()
is_valid(v) == v.valid /\ ~has_errors(v)

\* a caller obtains ValidationResult::valid()
Construct_valid ==
    /\ validation' = <<valid_result>>
    /\ verdict' = {}
    /\ UNCHANGED <<schema, json, parsed, applied>>
    /\ UNCHANGED <<loaderVars, callVars, hostVars, sessionVars>>

\* a caller obtains ValidationResult::invalid(diagnostics)
Construct_invalid ==
    /\ \E sevs \in SeqsUpTo(Severities, MaxDiagnostics) :
         validation' =
            <<invalid([i \in 1..Len(sevs) |-> Diagnostic(sevs[i])])>>
    /\ verdict' = {}
    /\ UNCHANGED <<schema, json, parsed, applied>>
    /\ UNCHANGED <<loaderVars, callVars, hostVars, sessionVars>>

\* a native payload is decoded; a payload that does not decode leaves the
\* caller with an error and no result
Decode ==
    /\ \E flag \in BOOLEAN, texts \in SeqsUpTo(SeverityTexts, MaxDiagnostics) :
         validation' = from_str_ValidationResult(flag, texts)
    /\ verdict' = {}
    /\ UNCHANGED <<schema, json, parsed, applied>>
    /\ UNCHANGED <<loaderVars, callVars, hostVars, sessionVars>>

\* result.is_valid() is asked
IsValid ==
    /\ validation # <<>>
    /\ verdict' = {is_valid(validation[1])}
    /\ UNCHANGED <<validation, schema, json, parsed, applied>>
    /\ UNCHANGED <<loaderVars, callVars, hostVars, sessionVars>>

\* nothing is loaded and no thread is inside the loader or an operation
AtRest ==
    /\ LIBRARY = NoHandle
    /\ owner = 0
    /\ pc = [t \in Threads |-> "idle"]
    /\ calls = 0
    /\ res = [t \in Threads |-> NoResult]
    /\ att = [t \in Threads |-> NoAttempt]
    /\ ran = [t \in Threads |-> FALSE]
    /\ blocked = [t \in Threads |-> FALSE]
    /\ late = [t \in Threads |-> FALSE]
    /\ failed = FALSE
    /\ env = MkEnv(FALSE, Absent)
    /\ dotnet_root = Unset
    /\ initCalls = 0
    /\ initOks = 0
    /\ cleanupCalls = 0
    /\ opens = 0
    /\ exited = FALSE
    /\ NoCalls
    /\ NoProbes
    /\ NoSessions

ResultInit == AtRest

ResultNext ==
    \/ Construct_valid
    \/ Construct_invalid
    \/ Decode
    \/ IsValid

\* most tables and most columns of a table in one schema
MaxTables == 2

MaxColumns == 2

\* Option<String>: None and Some(text)
None == <<>>

Some(text) == <<text>>

\* Column::new(name, data_type)
Column_new(name, data_type) ==
    [name |-> name, data_type |-> data_type, description |-> None]

\* Column::description(desc)
Column_description(c, desc) == [c EXCEPT !.description = Some(desc)]

\* Table::new(name)
Table_new(name) == [name |-> name, columns |-> <<>>, description |-> None]

\* Table::column(column)
column(t, c) == [t EXCEPT !.columns = Append(@, c)]

\* Table::with_column(name, data_type)
with_column(t, name, data_type) == column(t, Column_new(name, data_type))

\* Table::description(desc)
Table_description(t, desc) == [t EXCEPT !.description = Some(desc)]

\* Schema::new()
Schema_new == [database |-> None, tables |-> <<>>, functions |-> <<>>]

\* Schema::with_database(database)
with_database(database) == [Schema_new EXCEPT !.database = Some(database)]

\* Schema::table(table)
table(s, t) == [s EXCEPT !.tables = Append(@, t)]

\* the text of a JSON string for s: a quote inside it is written as \"
escape(s) ==
    CASE s = "Sign\"in" -> "Sign\\\"in"
      [] s = "the \"name\"" -> "the \\\"name\\\""
      [] OTHER -> s

\* mutant: the parser hands out the text between the quotes as it stands
unescape_Raw(e) == e

\* the string a JSON string text stands for
unescape(e) ==
    CASE e = "Sign\\\"in" -> "Sign\"in"
      [] e = "the \\\"name\\\"" -> "the \"name\""
      [] OTHER -> e

\* Serialize for Column: description is skipped when None
to_json_Column(c) ==
    LET base == [name |-> escape(c.name), data_type |-> escape(c.data_type)]
    IN IF c.description = None THEN base
       ELSE base @@ ("description" :> escape(c.description[1]))

\* Serialize for Table: description is skipped when None
to_json_Table(t) ==
    LET base == [name |-> escape(t.name),
                 columns |-> [i \in 1..Len(t.columns) |->
                                 to_json_Column(t.columns[i])]]
    IN IF t.description = None THEN base
       ELSE base @@ ("description" :> escape(t.description[1]))

\* serde_json::to_string(&schema): database is skipped when None; no
\* function is ever added here, so functions is written as []
to_json_Schema(s) ==
    LET base == [tables |-> [i \in 1..Len(s.tables) |->
                                to_json_Table(s.tables[i])],
                 functions |-> <<>>]
    IN IF s.database = None THEN base
       ELSE base @@ ("database" :> escape(s.database[1]))

\* an Option<String> field: None when the key is missing
optional(j, key) ==
    IF key \in DOMAIN j THEN Some(unescape(j[key])) ELSE None

\* Deserialize for Column
from_json_Column(j) ==
    [name |-> unescape(j.name),
     data_type |-> unescape(j.data_type),
     description |-> optional(j, "description")]

\* Deserialize for Table: columns has #[serde(default)]
from_json_Table(j) ==
    [name |-> unescape(j.name),
     columns |-> IF "columns" \in DOMAIN j
                   THEN [i \in 1..Len(j.columns) |->
                            from_json_Column(j.columns[i])]
                   ELSE <<>>,
     description |-> optional(j, "description")]

\* serde_json::from_str::<Schema>: tables and functions have
\* #[serde(default)]
from_json_Schema(j) ==
    [database |-> optional(j, "database"),
     tables |-> IF "tables" \in DOMAIN j
                  THEN [i \in 1..Len(j.tables) |->
                           from_json_Table(j.tables[i])]
                  ELSE <<>>,
     functions |-> <<>>]

\* the columns and tables callers build
ColumnValues ==
    {Column_new("Id", "long"),
     Column_description(Column_new("Name", "string"), "the \"name\"")}

TableValues ==
    LET named == {Table_new("Test"), Table_new("Sign\"in")}
        filled == {[t EXCEPT !.columns = cs] :
                     t \in named, cs \in SeqsUpTo(ColumnValues, MaxColumns)}
    IN filled \cup {Table_description(t, "sign-ins") : t \in named}

\* no builder call, no text and no parsed schema yet
Fresh(fn) ==
    /\ json' = <<>>
    /\ parsed' = <<>>
    /\ applied' = [fn |-> fn, tables |-> <<>>]

\* Schema::new()
NewSchema ==
    /\ schema' = <<Schema_new>>
    /\ Fresh("new")
    /\ UNCHANGED <<validation, verdict>>
    /\ UNCHANGED <<loaderVars, callVars, hostVars, sessionVars>>

\* Schema::with_database("SecurityDB")
WithDatabase ==
    /\ schema' = <<with_database("SecurityDB")>>
    /\ Fresh("with_database")
    /\ UNCHANGED <<validation, verdict>>
    /\ UNCHANGED <<loaderVars, callVars, hostVars, sessionVars>>

\* schema.table(t) on the schema being built
AddTable ==
    /\ schema # <<>>
    /\ json = <<>>
    /\ Len(schema[1].tables) < MaxTables
    /\ \E t \in TableValues :
         /\ schema' = <<table(schema[1], t)>>
         /\ applied' = [fn |-> "table", tables |-> <<t>>]
    /\ UNCHANGED <<json, parsed, validation, verdict>>
    /\ UNCHANGED <<loaderVars, callVars, hostVars, sessionVars>>

\* let json = serde_json::to_string(&schema).unwrap()
ToJson ==
    /\ schema # <<>>
    /\ json = <<>>
    /\ json' = <<to_json_Schema(schema[1])>>
    /\ UNCHANGED <<schema, parsed, applied, validation, verdict>>
    /\ UNCHANGED <<loaderVars, callVars, hostVars, sessionVars>>

\* let parsed: Schema = serde_json::from_str(&json).unwrap()
FromJson ==
    /\ json # <<>>
    /\ parsed = <<>>
    /\ parsed' = <<from_json_Schema(json[1])>>
    /\ UNCHANGED <<schema, json, applied, validation, verdict>>
    /\ UNCHANGED <<loaderVars, callVars, hostVars, sessionVars>>

SchemaInit == AtRest

SchemaNext ==
    \/ NewSchema
    \/ WithDatabase
    \/ AddTable
    \/ ToJson
    \/ FromJson

(***************************************************************************)
(* Specifications.                                                         *)
(***************************************************************************)
vars == <<loaderVars, callVars, hostVars, sessionVars, valueVars>>

Init == LoaderInit /\ NoCalls /\ NoProbes /\ NoSessions

Next == LoaderNext

\* threads racing to load the singleton
Spec == Init /\ [][Next]_vars

\* what thread t does once it is inside load_library(): every step but the
\* call itself
Proceeds(t) ==
    \/ GetCached(t)
    \/ BecomeInitializer(t)
    \/ Block(t)
    \/ Wake(t)
    \/ ensure_dotnet_root(t)
    \/ Resolve(t)
    \/ load_from(t)
    \/ init(t)
    \/ init_get_last_error(t)
    \/ drop_lib(t)
    \/ return_init_failed(t)
    \/ publish(t)

\* the racing threads when every thread inside load_library() keeps being
\* scheduled and every native call and filesystem probe returns (each step
\* of Proceeds moves the thread's position)
FairSpec == Init /\ [][Next]_vars /\ \A t \in Threads : WF_pc(Proceeds(t))

\* query operations over a loaded handle
CallSpec == CallInit /\ [][CallNext]_vars

\* the resolver functions in every environment
ResolverSpec == ResolverInit /\ [][ResolverNext]_vars

\* the runtime prober on every host
ProberSpec == ProberInit /\ [][ProberNext]_vars

\* query operations of several threads over one loaded handle
SharedSpec == SharedInit /\ [][SharedNext]_vars

\* ValidationResult values and their predicates
ResultSpec == ResultInit /\ [][ResultNext]_vars

\* Schema values: building, serializing and parsing back
SchemaSpec == SchemaInit /\ [][SchemaNext]_vars

(***************************************************************************)
(* The singleton: claims about load_library().                             *)
(***************************************************************************)
ClosurePcs ==
    {"probe", "resolve", "load_from", "init", "get_last_error", "drop_lib",
     "return_err", "publish"}

InLoad(t) == pc[t] \in ClosurePcs

Returned(t) == pc[t] = "idle" /\ res[t] # NoResult

C2_HandleFullyInitialized ==
    \A t \in Threads :
        res[t].kind = "Ok" =>
            /\ RequiredSet \subseteq res[t].handle.bound
            /\ res[t].handle.initRet = 0
            /\ \A u \in Threads : pc[u] \notin {"init", "get_last_error"}

\* two callers hold the handle, one of them after waiting for the other's load
C2_Witness ==
    \E t, u \in Threads :
        /\ t # u
        /\ res[t].kind = "Ok" /\ blocked[t] /\ ~ran[t]
        /\ res[u].kind = "Ok" /\ ran[u]

\* C3: once the cell is set it is never replaced, no library is opened and
\* kql_init is not called again, and every call that returns from then on
\* returns the published handle, whatever the environment has become.
C3_LoadedIsFinal ==
    [][is_loaded =>
          /\ LIBRARY' = LIBRARY
          /\ opens' = opens
          /\ initCalls' = initCalls
          /\ \A t \in Threads : ~InLoad(t)'
          /\ \A t \in Threads :
                res'[t] # res[t] => res'[t] \in {NoResult, Ok(LIBRARY)}]_vars

\* a later call got the cached handle in an environment without any library
C3_Witness ==
    \E t \in Threads :
        /\ is_loaded
        /\ res[t] = Ok(LIBRARY) /\ ~ran[t] /\ ~blocked[t]
        /\ find_library_path(env) = NoPath

C5_WriteOnceSuccessOnly ==
    [][/\ LIBRARY' # LIBRARY =>
             /\ LIBRARY = NoHandle
             /\ \E t \in Threads :
                   /\ owner = t
                   /\ att[t].initRet = 0
                   /\ LIBRARY' = HandleOf(att[t])
       /\ (\E t \in Threads : res'[t].kind = "Err" /\ res[t].kind # "Err")
             => ~is_loaded'
       /\ is_loaded => is_loaded']_vars

\* one attempt failed and left the cell empty, a later one filled it
C5_Witness ==
    /\ is_loaded
    /\ failed
    /\ \E t \in Threads : res[t].kind = "Err"

\* C6: within a load attempt kql_cleanup is called only if kql_init
\* returned 0 in that attempt.
C6_NoCleanupWithoutInit ==
    \A t \in Threads : att[t].cleanups > 0 => att[t].initRet = 0

\* C7: when the process has ended with a published handle, kql_cleanup has
\* been called exactly once for that handle.
C7_CleanupOnceAtTeardown ==
    exited /\ is_loaded => LIBRARY.cleanups = 1

(***************************************************************************)
(* The call-with-retry protocol: claims about query operations.            *)
(***************************************************************************)
QReturned == qpc = "idle" /\ qres # NoQRes

Caps == [i \in 1..Len(ncalls) |-> ncalls[i].cap]

Rets == [i \in 1..Len(ncalls) |-> ncalls[i].ret]

\* C8: when every native data call of an operation returned -1, the
\* operation made exactly two of them, with capacities 65536 and 131072, and
\* returned BufferTooSmall with available = 131072.
C8_AlwaysTooSmall ==
    (QReturned /\ ncalls # <<>> /\ \A i \in 1..Len(ncalls) : Rets[i] = -1) =>
        /\ Caps = <<65536, 131072>>
        /\ qres.kind = "Err"
        /\ qres.err = "BufferTooSmall"
        /\ qres.available = 131072

\* an operation gave up after two buffer-too-small returns
C8_Witness ==
    /\ QReturned
    /\ Rets = <<-1, -1>>
    /\ qres.err = "BufferTooSmall"

\* C9: an operation makes at most two native data calls and at most one
\* kql_get_last_error call, the second data call only after the first
\* returned -1, and an operation that returns an error returns no value.
C9_SingleRetry ==
    /\ Len(ncalls) <= 2
    /\ gleCalls <= 1
    /\ Len(ncalls) = 2 => Rets[1] = -1
    /\ qres.kind = "Err" => qres.value = "none"

\* an operation retried once, then failed with a native error after
\* fetching the last-error message
C9_Witness ==
    /\ QReturned
    /\ Len(ncalls) = 2
    /\ gleCalls = 1
    /\ qres.err = "NativeError"

\* C10: the capacity handed to the first native data call is 65536, the one
\* handed to the retry is twice the previous one, and every capacity is the
\* untruncated buffer length, at most MAX_BUFFER_SIZE and at most C_INT_MAX.
C10_Capacities ==
    /\ \A i \in 1..Len(ncalls) :
          /\ Caps[i] = ncalls[i].buffer_len
          /\ Caps[i] > 0
          /\ Caps[i] <= MAX_BUFFER_SIZE
          /\ Caps[i] <= C_INT_MAX
    /\ Len(ncalls) >= 1 => Caps[1] = 64 * 1024
    /\ Len(ncalls) >= 2 => Caps[2] = 2 * Caps[1]
    /\ (qres.err = "BufferTooSmall" /\ Len(ncalls) = 1) =>
          qres.needed > MAX_BUFFER_SIZE

\* a retry with the doubled buffer succeeded
C10_Witness ==
    /\ QReturned
    /\ Len(ncalls) = 2
    /\ Caps[2] = 131072
    /\ qres.kind = "Ok"

(***************************************************************************)
(* Claims about the results of the call-with-retry protocol.               *)
(***************************************************************************)
\* the buffer length the operation's last native data call was made with
LastLen == ncalls[Len(ncalls)].buffer_len

\* C11 as stated: every BufferTooSmall error reports the buffer size that was
\* attempted in its needed field and the maximum size, 4 MiB, in its
\* available field.
C11_AttemptedAndMaximum ==
    (QReturned /\ qres.err = "BufferTooSmall") =>
        /\ qres.needed \in {LastLen, new_size(LastLen)}
        /\ qres.available = MAX_BUFFER_SIZE

\* C11, amended: a BufferTooSmall error raised because the doubled size would
\* exceed the maximum follows a single native data call and reports the
\* doubled size as needed and MAX_BUFFER_SIZE as available; one raised because
\* the retry still returned -1 follows two calls and reports needed = 0 and,
\* as available, the length of the retried buffer (131072).
C11_NeededAndAvailable ==
    (QReturned /\ qres.err = "BufferTooSmall") =>
        \/ /\ Len(ncalls) = 1
           /\ qres.needed = new_size(LastLen)
           /\ qres.needed > MAX_BUFFER_SIZE
           /\ qres.available = MAX_BUFFER_SIZE
        \/ /\ Len(ncalls) = 2
           /\ qres.needed = 0
           /\ qres.available = LastLen
           /\ qres.available = 2 * DEFAULT_BUFFER_SIZE

\* the retry with the doubled buffer was still too small, and the error says
\* "needed 0 bytes, had 131072"
C11_Witness ==
    /\ QReturned
    /\ Len(ncalls) = 2
    /\ qres.err = "BufferTooSmall"
    /\ qres.needed = 0
    /\ qres.available = 131072

\* what the operation's last native data call stored in the buffer
LastWrote == ncalls[Len(ncalls)].wrote

\* C12: when the final native data call of an operation returns 0, the
\* operation returns the empty result of its type (valid with no diagnostics
\* for the two validations, no spans for classification, no items for
\* completion), has decoded no byte of the buffer and has not called
\* kql_get_last_error.
C12_EmptyResult ==
    (QReturned /\ ncalls # <<>> /\ LastCode = 0) =>
        /\ qres.kind = "Ok"
        /\ qres.value =
              CASE op = "get_completions" -> "no items"
                [] op = "get_classifications" -> "no spans"
                [] OTHER -> "valid, no diagnostics"
        /\ decoded = 0
        /\ gleCalls = 0

\* a completion request was retried with the doubled buffer, the retry
\* returned 0 and the caller got the empty item list
C12_Witness ==
    /\ QReturned
    /\ op = "get_completions"
    /\ Rets = <<-1, 0>>
    /\ qres.value = "no items"

C14_NativeError ==
    (QReturned /\ ncalls # <<>> /\ LastCode < 0 /\ LastCode # -1) =>
        /\ gleCalls = 1
        /\ qres.kind = "Err"
        /\ qres.err = "NativeError"
        /\ qres.code = LastCode
        /\ qres.reason = CASE LastCode = -2 -> "Parse error in input"
                           [] LastCode = -3 -> "Internal error"
                           [] OTHER -> "Unknown error code"
        /\ qres.context \in {"native message", ""}

\* C15 as stated: whatever the native functions return, a public operation
\* returns a value or a structured error and never panics.
C15_NoPanic == qres.kind # "Panic"

(***************************************************************************)
(* Claims about what the operations hand to the native functions.          *)
(***************************************************************************)
\* every length and offset the caller passed fits c_int
GivenFits ==
    /\ fits_c_int(given.query)
    /\ fits_c_int(given.schema)
    /\ fits_c_int(given.cursor)

\* C16 as stated: an operation given a query length, schema JSON length or
\* cursor offset that does not fit c_int returns an error without any native
\* call, and every length and offset handed to a native function is the
\* value the caller passed, neither truncated nor wrapped.
C16_LengthsChecked ==
    /\ (op # "none" /\ ~GivenFits) =>
          /\ qpc = "idle"
          /\ qres.kind = "Err"
          /\ ncalls = <<>>
          /\ gleCalls = 0
    /\ (op # "none" /\ qres.err # "Internal") =>
          /\ GivenFits
          /\ args.query_len = given.query.lo
          /\ args.schema_len = given.schema.lo
          /\ args.cursor_pos = given.cursor.lo

(***************************************************************************)
(* Claims about the optional entry points.                                 *)
(***************************************************************************)
\* the operations that need an optional entry point, with its symbol
OptionalOps ==
    { <<"validate_with_schema", KQL_VALIDATE_WITH_SCHEMA>>,
      <<"get_completions", KQL_GET_COMPLETIONS>>,
      <<"get_classifications", KQL_GET_CLASSIFICATIONS>> }

\* this step is the call of operation name
Begins(name) == qpc = "idle" /\ op' = name /\ given' # NoGiven

\* C17: on a handle loaded from a library that lacks some of the three
\* optional symbols, an operation whose entry point is absent returns an
\* error at once, without a native data call or a kql_get_last_error call,
\* and no operation changes the handle: it stays the loaded, initialized,
\* open handle it was, on which the other operations go on to run.
C17_AbsentEntryPoints ==
    [][ /\ LIBRARY' = LIBRARY
        /\ LIBRARY.initRet = 0 /\ ~LIBRARY.closed /\ LIBRARY.cleanups = 0
        /\ \A o \in OptionalOps :
              (Begins(o[1]) /\ o[2] \notin LIBRARY.bound) =>
                  /\ qpc' = "idle"
                  /\ qres'.kind = "Err"
                  /\ qres'.reason \in NotSupported
                  /\ ncalls' = <<>>
                  /\ gleCalls' = 0
        /\ \A o \in OptionalOps :
              (Begins(o[1]) /\ o[2] \in LIBRARY.bound /\ GivenFits') =>
                  /\ qpc' = "call1"
                  /\ qres' = NoQRes
      ]_vars

\* on a library without kql_get_classifications a request was refused, and
\* afterwards a completion request on the same handle returned a parsed value
C17_Witness ==
    /\ KQL_GET_CLASSIFICATIONS \notin LIBRARY.bound
    /\ refused
    /\ QReturned
    /\ op = "get_completions"
    /\ ncalls # <<>>
    /\ qres.value = "parsed"

\* C18: supports_schema_validation, supports_completion and
\* supports_classification are true exactly when the symbol of their entry
\* point was bound when the library was loaded, and no operation changes
\* what they return.
C18_SupportsFixed ==
    [][ /\ supports_schema_validation
              <=> (KQL_VALIDATE_WITH_SCHEMA \in LIBRARY.bound)
        /\ supports_completion <=> (KQL_GET_COMPLETIONS \in LIBRARY.bound)
        /\ supports_classification
              <=> (KQL_GET_CLASSIFICATIONS \in LIBRARY.bound)
        /\ supports_schema_validation' = supports_schema_validation
        /\ supports_completion' = supports_completion
        /\ supports_classification' = supports_classification
      ]_vars

\* after operations that called the native library and were refused, the
\* handle still reports completion without schema validation or
\* classification
C18_Witness ==
    /\ supports_completion
    /\ ~supports_schema_validation
    /\ ~supports_classification
    /\ refused
    /\ QReturned
    /\ ncalls # <<>>

(***************************************************************************)
(* Claims about failed load attempts.                                      *)
(***************************************************************************)
\* some candidate location of environment e holds the library
HoldsLibrary(e) ==
    \/ e.override /\ is_file(e, P_OVR)
    \/ e.override /\ is_dir(e, P_OVR) /\ exists(e, P_OVR_LIB)
    \/ exists(e, P_EXE_LIB)
    \/ exists(e, P_NATIVE_LIB)
    \/ exists(e, P_CWD_LIB)

\* the step calls none of kql_init, kql_get_last_error and kql_cleanup, and
\* thread t's attempt has called none of them before
NoNativeCall(t) ==
    /\ initCalls' = initCalls
    /\ initOks' = initOks
    /\ cleanupCalls' = cleanupCalls
    /\ att[t].initRet = NOT_CALLED /\ att'[t].initRet = NOT_CALLED
    /\ att[t].gleCalls = 0 /\ att'[t].gleCalls = 0
    /\ att[t].cleanups = 0 /\ att'[t].cleanups = 0

\* C19: when the resolver runs and no candidate location holds the library,
\* load_library fails with LibraryNotFound carrying the ordered list
\* searched_paths() returns; the attempt has opened no library and called no
\* native function, and the cell stays as it was.
C19_LibraryNotFound ==
    [][ \A t \in Threads :
          (pc[t] = "resolve" /\ pc'[t] # "resolve" /\ ~HoldsLibrary(env)) =>
              /\ pc'[t] = "idle"
              /\ res'[t].kind = "Err"
              /\ res'[t].err = "LibraryNotFound"
              /\ res'[t].detail = searched_paths(env)
              /\ Len(res'[t].detail) >= 3
              /\ opens' = opens
              /\ ~att[t].opened /\ ~att'[t].opened
              /\ NoNativeCall(t)
              /\ LIBRARY' = LIBRARY
      ]_vars

\* a call failed with LibraryNotFound before any library was ever opened or
\* any native function called
C19_Witness ==
    /\ \E t \in Threads :
          /\ res[t].err = "LibraryNotFound"
          /\ res[t].detail = <<P_EXE_LIB, P_NATIVE_LIB, P_CWD_LIB>>
    /\ opens = 0
    /\ initCalls = 0
    /\ cleanupCalls = 0

\* C20: when the library that load_from opened lacks a required symbol, the
\* attempt fails with SymbolNotFound naming the first of kql_init,
\* kql_cleanup, kql_validate_syntax, kql_get_last_error that is missing, and
\* no native function is called in that attempt; when none is missing the
\* attempt goes on to kql_init.
C20_SymbolNotFound ==
    [][ \A t \in Threads :
          (pc[t] = "load_from" /\ opens' = opens + 1) =>
              LET x == att'[t].exports IN
              IF RequiredSet \subseteq x
                THEN pc'[t] = "init" /\ res'[t] = res[t]
                ELSE /\ pc'[t] = "idle"
                     /\ res'[t].kind = "Err"
                     /\ res'[t].err = "SymbolNotFound"
                     /\ \E i \in 1..Len(RequiredSymbols) :
                           /\ res'[t].detail = <<RequiredSymbols[i]>>
                           /\ RequiredSymbols[i] \notin x
                           /\ \A j \in 1..(i - 1) : RequiredSymbols[j] \in x
                     /\ NoNativeCall(t)
                     /\ LIBRARY' = LIBRARY
      ]_vars

\* a library without kql_cleanup and kql_get_last_error was opened and the
\* attempt failed naming kql_cleanup, with no native function ever called
C20_Witness ==
    /\ \E t \in Threads :
          /\ res[t].err = "SymbolNotFound"
          /\ res[t].detail = <<KQL_CLEANUP>>
          /\ KQL_GET_LAST_ERROR \notin att[t].exports
    /\ opens >= 1
    /\ initCalls = 0
    /\ cleanupCalls = 0

\* C21 as stated: when kql_init returns a value other than 0, load_library
\* calls kql_get_last_error once with a 1024-byte buffer and fails with
\* InitializationFailed, whose message is the fetched text when the call
\* returned a positive length and otherwise the generic message with the
\* return code of kql_init; the handle is not published.
C21_InitializationFailed ==
    [][ \A t \in Threads :
          /\ (pc[t] = "init" /\ pc'[t] # "init" /\ att'[t].initRet # 0) =>
                pc'[t] = "get_last_error"
          /\ (pc[t] = "return_err" /\ pc'[t] # "return_err") =>
                /\ att[t].initRet # 0
                /\ att[t].gleCalls = 1
                /\ att[t].gleCap = 1024
                /\ pc'[t] = "idle"
                /\ res'[t].kind = "Err"
                /\ res'[t].err = "InitializationFailed"
                /\ res'[t].detail =
                      IF att[t].gleRet > 0 THEN <<"native message">>
                      ELSE <<"Initialization returned error code: ",
                             ToString(att[t].initRet)>>
                /\ LIBRARY' = LIBRARY
                /\ LIBRARY'.id # att[t].id
      ]_vars

(***************************************************************************)
(* The resolver: claims about find_library_path() and its neighbours.      *)
(***************************************************************************)
\* the candidate locations in the order of their priority
CandidateOrder == <<P_OVR, P_OVR_LIB, P_EXE_LIB, P_NATIVE_LIB, P_CWD_LIB>>

\* candidate p exists in environment e: the override value as a file, the
\* library inside the override value as a directory, the library at the
\* other locations
CandidateExists(e, p) ==
    IF p = P_OVR THEN e.override /\ e.kind[P_OVR] = "file"
    ELSE IF p = P_OVR_LIB
      THEN e.override /\ e.kind[P_OVR] = "dir" /\ e.kind[P_OVR_LIB] # "absent"
    ELSE IF p = P_EXE_LIB THEN e.exe /\ e.kind[P_EXE_LIB] # "absent"
    ELSE e.kind[p] # "absent"

\* a step in which resolver function name is called and returns
Resolves(name) == probe'.fn = name /\ probe' # probe

\* C22: find_library_path() returns the first candidate that exists, in the
\* order override value, library inside the override directory, library next
\* to the executable, library in the development tree, library in the working
\* directory; an existing override file wins whatever the other locations
\* hold, an override that is absent or a directory without the library falls
\* through, and none is returned exactly when no candidate exists.
C22_FirstExistingCandidate ==
    [][ Resolves("find_library_path") =>
          LET r == probe'.path
              live == {i \in 1..Len(CandidateOrder) :
                         CandidateExists(env, CandidateOrder[i])}
          IN  /\ (r = NoPath) <=> (live = {})
              /\ live # {} =>
                   \E i \in live : /\ r = CandidateOrder[i]
                                   /\ \A j \in live : i <= j
              /\ (env.override /\ env.kind[P_OVR] = "file") => r = P_OVR
              /\ (env.override /\ env.kind[P_OVR] # "file"
                    /\ env.kind[P_OVR_LIB] = "absent") =>
                   r \notin {P_OVR, P_OVR_LIB}
      ]_vars

\* the entries of a all occur in b, in the same relative order
InSameOrder(a, b) ==
    \E f \in [1..Len(a) -> 1..Len(b)] :
       /\ \A i \in 1..Len(a) : b[f[i]] = a[i]
       /\ \A i, k \in 1..Len(a) : i < k => f[i] < f[k]

\* C23: in every state of the environment and of the filesystem,
\* searched_paths() is non-empty and contains, in the same relative order,
\* every path that find_library_path() checks.
C23_SearchedCoversChecked ==
    [][ Resolves("searched_paths") =>
          /\ probe'.list # <<>>
          /\ InSameOrder(checked_paths(env), probe'.list)
      ]_vars

\* nothing is found with the override set: all five probed paths are listed
C23_Witness ==
    /\ probe.fn = "searched_paths"
    /\ Len(probe.list) = 5
    /\ checked_paths(env) = probe.list
    /\ find_library_path(env) = NoPath

\* C24: every path returned by find_library_path() names an existing file; a
\* candidate location that exists only as a directory is never returned.
C24_ReturnsFiles ==
    [][ (Resolves("find_library_path") /\ probe'.path # NoPath) =>
          env.kind[probe'.path] = "file"
      ]_vars

\* C25: resolution keeps no state: each call of find_library_path() and
\* searched_paths() recomputes from the current environment and filesystem,
\* so a change of the override variable between two calls is reflected by
\* the second; and find_library_path(), searched_paths(), is_available() and
\* library_path() never load the library, run the native initialize, or
\* change the singleton.
C25_StatelessResolution ==
    [][ /\ Resolves("find_library_path") => probe'.path = find_library_path(env)
        /\ Resolves("searched_paths") => probe'.list = searched_paths(env)
        /\ Resolves("is_available") =>
             probe'.flag = (find_library_path(env) # NoPath)
        /\ Resolves("library_path") => probe'.path = find_library_path(env)
        /\ (\E name \in {"find_library_path", "searched_paths", "is_available",
                         "library_path"} : Resolves(name)) =>
             /\ LIBRARY' = LIBRARY
             /\ owner' = owner
             /\ opens' = opens
             /\ initCalls' = initCalls
             /\ env' = env
      ]_vars

\* two find_library_path() calls in a row: the first found the library in the
\* working directory, then the override variable was set to an existing file,
\* and the second call returns the override; nothing was loaded
C25_Witness ==
    /\ probe.fn = "find_library_path"
    /\ probe.prior = P_CWD_LIB
    /\ probe.path = P_OVR
    /\ var_ok(env)
    /\ ~is_loaded
    /\ opens = 0
    /\ initCalls = 0

(***************************************************************************)
(* Platform identity: claims about current_rid() and LIB_NAME.             *)
(***************************************************************************)
\* the tag prefix of a platform family
FamilyPrefix(os) ==
    CASE os = "macos" -> "osx" [] os = "linux" -> "linux" [] os = "windows" -> "win"

\* the shared-library extension of a platform
SharedLibraryExtension(os) ==
    CASE os = "macos" -> "dylib" [] os = "linux" -> "so" [] os = "windows" -> "dll"

\* C30: for every supported platform and architecture pair, current_rid()
\* returns a non-empty tag whose prefix is the platform family (osx-, linux-,
\* win-), and LIB_NAME is non-empty and ends with the platform's
\* shared-library extension.
C30_PlatformIdentity ==
    probe.fn = "current_rid" =>
      /\ target \in Targets
      /\ Len(probe.rid) = 2
      /\ probe.rid[1] = FamilyPrefix(target.os)
      /\ probe.rid[2] \in {"x64", "arm64"}
      /\ Len(probe.lib) = 2
      /\ probe.lib[1] # ""
      /\ probe.lib[2] = SharedLibraryExtension(target.os)

\* a macOS build on Apple silicon: osx-arm64 and a .dylib
C30_Witness ==
    /\ probe.fn = "current_rid"
    /\ target = [os |-> "macos", arch |-> "aarch64"]
    /\ probe.rid = <<"osx", "arm64">>
    /\ probe.lib[2] = "dylib"

(***************************************************************************)
(* Availability: is_available() against KqlValidator::new().               *)
(***************************************************************************)
\* C26: is_available() tells whether the library can be loaded: whenever it
\* returns true, KqlValidator::new() in the same environment and filesystem
\* state succeeds, and whenever it returns false, KqlValidator::new() fails.
C26_AvailableIffLoadable ==
    [][ \A t \in Threads :
          (pc[t] # "idle" /\ pc'[t] = "idle") =>
             (is_available(env) <=> res'[t].kind = "Ok")
      ]_vars

(***************************************************************************)
(* The runtime prober: claims about ensure_dotnet_root().                  *)
(***************************************************************************)
\* a step in which thread t runs ensure_dotnet_root()
Probes(t) == pc[t] = "probe" /\ pc'[t] # "probe"

\* C27: the prober is a no-op when DOTNET_ROOT is already set: it never
\* overwrites or unsets an existing value, so running it twice in a row
\* leaves the same environment as running it once.
C27_SetRootUntouched ==
    [][ \A t \in Threads :
          (Probes(t) /\ dotnet_root.state # "unset") => dotnet_root' = dotnet_root
      ]_vars

\* the discovery command gave no base path: it could not be run, it exited
\* with a failure status, or its output has no Base Path line
NoBasePath(h) == h.cmd \in {"missing", "failed"} \/ h.base = NoBase

\* none of the well-known installation directories is present
NoKnownDirectory(h) ==
    \A i \in 1..Len(candidates) : \A q \in h.fs : ~IsPrefix(candidates[i], q)

\* C28: whatever the discovery command and the filesystem probes yield
\* (command missing, failing exit status, no base-path line, no known
\* directory present), the prober raises no error and the load goes on to
\* library resolution; if nothing is found the variable is left unset.
C28_BestEffort ==
    [][ \A t \in Threads :
          Probes(t) =>
            /\ pc'[t] = "resolve"
            /\ owner' = t
            /\ res' = res
            /\ failed' = failed
            /\ (dotnet_root = Unset /\ NoBasePath(host) /\ NoKnownDirectory(host)) =>
                  dotnet_root' = Unset
            /\ (dotnet_root = Unset /\ find_dotnet_root(host) = NoRoot) =>
                  dotnet_root' = Unset
      ]_vars

\* the command exited with a failure status and no known directory is there:
\* the prober is through, the variable is unset and resolution comes next
C28_Witness ==
    \E t \in Threads :
       /\ pc[t] = "resolve"
       /\ owner = t
       /\ res[t] = NoResult
       /\ host.cmd = "failed"
       /\ NoKnownDirectory(host)
       /\ dotnet_root = Unset

\* the root the stated priority leads to on host h: the nearest ancestor of
\* the base path named libexec, else the nearest ancestor holding a shared
\* subdirectory, else the first well-known directory that qualifies
PriorityRoot(h) ==
    LET base == IF h.cmd = "ok" /\ h.base # NoBase
                  THEN ancestors(h.base.path) ELSE <<>>
        named_libexec(p) == p # <<>> /\ p[Len(p)] = "libexec"
        holds_shared(p) == \E q \in h.fs : IsPrefix(Append(p, "shared"), q)
        versions(c) == {q[Len(c) + 1] : q \in {x \in h.fs \ PlainFiles :
                                                IsPrefix(c, x) /\ Len(x) > Len(c)}}
        top(c) == CHOOSE n \in versions(c) :
                     \A m \in versions(c) : m = n \/ BytesLess(Bytes(m), Bytes(n))
        qualifies(c) ==
            IF "Cellar" \in {c[i] : i \in 1..Len(c)}
              THEN /\ versions(c) # {}
                   /\ \E q \in h.fs : IsPrefix(c \o <<top(c), "libexec">>, q)
              ELSE holds_shared(c)
        Nearest(S) == base[CHOOSE i \in 1..Len(base) :
                                base[i] \in S /\ \A j \in 1..(i - 1) : base[j] \notin S]
        libexecs == {p \in Entries(base) : named_libexec(p)}
        shareds == {p \in Entries(base) : holds_shared(p)}
        knowns == {i \in 1..Len(candidates) : qualifies(candidates[i])}
        known == IF knowns = {} THEN NoRoot
                 ELSE candidates[CHOOSE i \in knowns : \A j \in knowns : i <= j]
    IN  IF libexecs # {} THEN Nearest(libexecs)
        ELSE IF shareds # {} THEN Nearest(shareds)
        ELSE IF known = NoRoot THEN NoRoot
        ELSE IF "Cellar" \in {known[i] : i \in 1..Len(known)}
          THEN known \o <<top(known), "libexec">>
        ELSE known

\* C29: the root the prober chooses follows the priority (1) nearest ancestor
\* of the command's base path named libexec, (2) otherwise the nearest
\* ancestor that contains a shared-components subdirectory, (3) only if the
\* command is unavailable or yielded nothing, the first qualifying well-known
\* directory in list order, a package-manager layout qualifying through the
\* libexec subdirectory of its lexicographically greatest version directory.
C29_RootPriority ==
    [][ \A t \in Threads :
          (Probes(t) /\ dotnet_root = Unset) =>
             dotnet_root' = IF PriorityRoot(host) = NoRoot THEN Unset
                            ELSE SetTo(PriorityRoot(host))
      ]_vars

(***************************************************************************)
(* The singleton under concurrency: further claims about load_library().   *)
(***************************************************************************)
\* the threads that are inside the load sequence
Loading == {t \in Threads : InLoad(t)}

\* C32: at any moment at most one thread executes the load sequence (runtime
\* probing, path resolution, library open, symbol binding, native
\* initialize, cleanup of a failed attempt): the attempts of concurrent
\* load_library() callers never overlap, also after an earlier attempt
\* failed.
C32_AttemptsNeverOverlap ==
    /\ \A t, u \in Loading : t = u
    /\ \A t \in Loading : owner = t
    /\ owner # 0 => owner \in Loading

\* a caller that waited behind an attempt that failed runs its own attempt,
\* alone, and is in the cleanup of its own failure
C32_Witness ==
    \E t \in Threads :
        /\ failed
        /\ blocked[t]
        /\ pc[t] = "drop_lib"
        /\ Loading = {t}

\* the handles the callers hold
Held == {res[t].handle : t \in {u \in Threads : res[u].kind = "Ok"}}

\* C33: across any sequence and interleaving of load_library() calls,
\* including calls that follow failed attempts, kql_init returns 0 at most
\* once in the process and at most one handle is ever published.
C33_OneSuccessOneHandle ==
    [][ /\ initOks' <= 1
        /\ LIBRARY' # LIBRARY => LIBRARY = NoHandle /\ initOks' = 1
        /\ \A h \in Held' : h = LIBRARY' /\ h.id # 0
      ]_vars

\* kql_init failed in one attempt and returned 0 in the next, whose handle
\* was published and is held by its caller
C33_Witness ==
    /\ failed
    /\ initCalls = 2
    /\ initOks = 1
    /\ is_loaded
    /\ \E t, u \in Threads :
          /\ res[t] = Ok(LIBRARY)
          /\ res[u].kind = "Err" /\ res[u].err = "InitializationFailed"

\* thread t makes a native call in this step: kql_init, kql_get_last_error
\* or the kql_cleanup of Drop
CallsNative(t) ==
    /\ pc[t] \in {"init", "get_last_error", "drop_lib"}
    /\ pc'[t] # pc[t]

\* C34: no native entry point is invoked after the library it was resolved
\* from has been closed: a failed attempt closes its library only after its
\* last native call, and the library behind a published handle is never
\* closed while a KqlValidator can call through it.
C34_NoCallAfterClose ==
    [][ /\ \A t \in Threads :
             CallsNative(t) => att[t].opened /\ ~att[t].closed
        /\ \A t \in Threads :
             (att[t].closed /\ pc'[t] # pc[t]) => pc'[t] = "idle"
        /\ is_loaded' => ~LIBRARY'.closed
        /\ \A h \in Held' : ~h.closed
      ]_vars

\* a failed attempt called kql_init, kql_get_last_error and kql_cleanup and
\* then closed its library; only the return of the error is left
C34_Witness ==
    \E t \in Threads :
        /\ pc[t] = "return_err"
        /\ att[t].closed
        /\ att[t].gleCalls = 1
        /\ att[t].cleanups = 1

\* C35: provided every native call and filesystem probe returns, every
\* load_library() call eventually returns under any number of concurrent
\* callers: a caller blocked behind an in-flight attempt is released both
\* when that attempt succeeds and when it fails.
C35_EveryCallReturns ==
    \A t \in Threads : (pc[t] # "idle") ~> (pc[t] = "idle" /\ res[t] # NoResult)

\* a caller that was blocked behind an attempt that failed has returned, and
\* so has the caller whose attempt failed
C35_Witness ==
    \E t, u \in Threads :
        /\ blocked[t] /\ Returned(t)
        /\ ~blocked[u] /\ Returned(u) /\ res[u].kind = "Err"

\* ---------------------------------------------------------------------------
\* C31  call_ffi_with_retry and call_ffi_json are the same protocol
\* ---------------------------------------------------------------------------

\* the data call a step has just recorded
LastCall == ncalls'[Len(ncalls')]

\* C31: fed the same native return code and buffer contents in the same
\* state, call_ffi_json and call_ffi_with_retry take the same step: the same
\* data call with the same capacity, the same buffer afterwards, the same
\* move to the get-last-error call, and the same outcome kind with the same
\* error fields.  Every data-call step of one function is a step of the
\* other's translation; only the value of a successful result is left free.
C31_SameProtocol ==
    [][ ncalls' # ncalls =>
          /\ (proto = "json" /\ qpc = "call1") =>
                FirstCall(LastCall.ret, LastCall.wrote, qres'.value)
          /\ (proto = "json" /\ qpc = "call2") =>
                SecondCall(LastCall.ret, LastCall.wrote, qres'.value)
          /\ (proto = "with_retry" /\ qpc = "call1") =>
                JsonFirstCall(LastCall.ret, LastCall.wrote, qres'.value)
          /\ (proto = "with_retry" /\ qpc = "call2") =>
                JsonSecondCall(LastCall.ret, LastCall.wrote, qres'.value)
      ]_callVars

\* a call_ffi_json operation retried, failed on the retry, fetched the native
\* message and returned NativeError
C31_Witness ==
    /\ proto = "json"
    /\ Len(ncalls) = 2
    /\ gleCalls = 1
    /\ qpc = "idle"
    /\ qres.kind = "Err"
    /\ qres.err = "NativeError"

\* ---------------------------------------------------------------------------
\* C36  NativeError never carries the buffer-too-small sentinel
\* ---------------------------------------------------------------------------

\* C36: an operation that made native data calls and returned never returns
\* NativeError with code -1 or with a non-negative code: when its last data
\* call returned -1 (the first, with no room to double, or the single retry)
\* it returned BufferTooSmall, and a NativeError it returned carries the
\* last data call's code, which is at most -2.
C36_NativeErrorCodes ==
    (QReturned /\ ncalls # <<>>) =>
        /\ LastCode = BUFFER_TOO_SMALL =>
              /\ qres.kind = "Err"
              /\ qres.err = "BufferTooSmall"
              /\ Len(ncalls) = 2
              /\ gleCalls = 0
        /\ (qres.kind = "Err" /\ qres.err = "NativeError") =>
              /\ qres.code = LastCode
              /\ qres.code <= -2
              /\ gleCalls = 1

\* a retry that failed with -2 after a first -1: NativeError carries -2
C36_Witness ==
    /\ QReturned
    /\ Rets = <<BUFFER_TOO_SMALL, -2>>
    /\ qres.err = "NativeError"
    /\ qres.code = -2

\* ---------------------------------------------------------------------------
\* C37  concurrent operations share the handle read-only and no buffer
\* ---------------------------------------------------------------------------

\* C37: while threads run query operations and capability queries at once,
\* no step changes the handle or its function table, a step of one thread
\* leaves the buffer, position and outcome of every other thread as they
\* were, and the buffer of a call in flight has the size that call gave it
\* (the default, or the double after its own -1).
C37_PrivateBuffers ==
    [][ /\ LIBRARY' = LIBRARY
        /\ \A w \in Workers :
             sessions'[w] # sessions[w] =>
                \A u \in Workers \ {w} : sessions'[u] = sessions[u]
        /\ \A w \in Workers :
             sessions'[w].pc \in {"call1", "call2"} =>
                /\ Size(sessions'[w].buffer) = sessions'[w].buffer_len
                /\ sessions'[w].buffer_len =
                     IF sessions'[w].pc = "call1"
                       THEN DEFAULT_BUFFER_SIZE
                       ELSE new_size(DEFAULT_BUFFER_SIZE)
      ]_vars

\* one thread is about to retry with its doubled buffer while another, whose
\* own operation decoded its result, has asked the handle for a capability
C37_Witness ==
    \E w, u \in Workers :
       /\ sessions[w].pc = "call2"
       /\ sessions[w].buffer_len = new_size(DEFAULT_BUFFER_SIZE)
       /\ sessions[u].pc = "idle"
       /\ sessions[u].res = QOk("parsed")
       /\ sessions[u].answers # {}

\* ---------------------------------------------------------------------------
\* C38  the message attached to a NativeError
\* ---------------------------------------------------------------------------

\* C38: the context of a NativeError returned to thread w is the message the
\* native library recorded for w's own failing data call.
C38_OwnMessage ==
    \A w \in Workers :
       (/\ sessions[w].pc = "idle"
        /\ sessions[w].res.err = "NativeError"
        /\ sessions[w].res.context # "")
       => sessions[w].res.context = recorded(w, sessions[w].res.code)

\* ---------------------------------------------------------------------------
\* C39  is_valid()
\* ---------------------------------------------------------------------------

\* number of diagnostics of severity sev in result v
Count(v, sev) ==
    Cardinality({i \in 1..Len(v.diagnostics) : v.diagnostics[i].severity = sev})

\* C39: is_valid() answers true exactly when the valid flag is true and no
\* diagnostic has severity Error: a valid=true result holding an Error
\* diagnostic is not valid, and warnings, information and hints never change
\* the answer.
C39_IsValid ==
    (validation # <<>> /\ verdict # {}) =>
        verdict = {validation[1].valid /\ Count(validation[1], "Error") = 0}

\* a decoded payload said valid=true and carried an Error diagnostic among
\* others: is_valid() answered false
C39_Witness ==
    /\ validation # <<>>
    /\ validation[1].valid
    /\ Count(validation[1], "Error") = 1
    /\ Count(validation[1], "Warning") = 1
    /\ verdict = {FALSE}

\* ---------------------------------------------------------------------------
\* C40  Schema round trip and the table() builder
\* ---------------------------------------------------------------------------

\* C40: the schema parsed back from the JSON text of a schema has the same
\* tables in the same order, each with the same name and the same columns
\* (and the same database name); and a table() call leaves the database name
\* and the tables added before as they were and puts its table after them.
C40_RoundTripAndAppend ==
    [][ /\ parsed' # <<>> =>
              /\ parsed'[1].tables = schema'[1].tables
              /\ parsed'[1].database = schema'[1].database
        /\ (applied'.fn = "table" /\ schema' # schema) =>
              /\ schema'[1].tables = schema[1].tables \o applied'.tables
              /\ schema'[1].database = schema[1].database
              /\ schema'[1].functions = schema[1].functions
      ]_vars

\* a schema with a database name and two tables, the second added by table()
\* after the first, one of them with a quote in its name and a described
\* column, was serialized and parsed back
C40_Witness ==
    /\ parsed # <<>>
    /\ schema # <<>>
    /\ schema[1].database = Some("SecurityDB")
    /\ Len(schema[1].tables) = 2
    /\ schema[1].tables[1].name = "Sign\"in"
    /\ schema[1].tables[2].name = "Test"
    /\ Len(schema[1].tables[2].columns) = 2
    /\ schema[1].tables[2].columns[2].description # None
    /\ applied.fn = "table"

====
